---- MODULE Spec2Model ----
(***************************************************************************)
(* Configuration and command orchestration of mcp-use-cli:                 *)
(*   - MCPConfigService (server registry, bulk JSON add, the five-step     *)
(*     server wizard),                                                     *)
(*   - LLMService (credential lookup, model selection),                    *)
(*   - CLIService (command registry, dispatch, sendMessage routing),       *)
(*   - App.handleSubmit (the caller that carries the awaiting flags).      *)
(*                                                                         *)
(* Text.  A string is a sequence of atoms.  An atom is a whitespace atom   *)
(* (" " or "\n"), the atom "=", or a word (a maximal run of other          *)
(* characters).  Two strings are equal iff their atom sequences are        *)
(* equal; trim, split and join are computed on the atoms as JavaScript     *)
(* computes them on the characters.                                        *)
(***************************************************************************)
EXTENDS Integers, Sequences, FiniteSets, TLC

VARIABLES
    file,                    \* ~/.mcp-use-cli/config.json (decrypted view)
    disk,                    \* the configuration directory and the raw file, where
                             \* SecureStorage is called directly
    llmCfg,                  \* LLMService.persistentConfig
    mcpCfg,                  \* MCPConfigService.persistentConfig
    sessionApiKeys,          \* LLMService.sessionApiKeys
    env,                     \* process.env, credential variables only
    currentLLMConfig,        \* LLMService.currentLLMConfig
    agent,                   \* AgentService.agent: the LLM config it was built with
    aliased,                 \* persistentConfig.lastModel is the currentLLMConfig object
    inflight,                \* the lines whose handleSubmit is suspended at an await
    client,                  \* AgentService.client: its servers and active sessions
    initialization,          \* CLIService.isInitialized, and the agent initializations
                             \* that initialize() has started
    isWaitingForApiKey,      \* App state
    pendingProvider,
    pendingModel,
    isWaitingForServerConfig,
    serverConfigStep,
    currentServerConfig,
    call,                    \* the last call made to a service entry point
    route,                   \* the branch of sendMessage that handled it
    result,                  \* the CommandResult it produced
    dispatched,              \* registry entry and arguments handleCommand used
    reinit,                  \* initializeAgent was requested while handling it
    fed,                     \* lines accepted so far by the wizard flow in progress
    before,                  \* registry and file when that flow started
    turns                    \* number of calls made so far

svcVars == <<file, disk, llmCfg, mcpCfg, sessionApiKeys, env, currentLLMConfig, agent,
             aliased, inflight, client, initialization>>
appVars == <<isWaitingForApiKey, pendingProvider, pendingModel,
             isWaitingForServerConfig, serverConfigStep, currentServerConfig>>
obsVars == <<call, route, result, dispatched, reinit, fed, before, turns>>
vars == <<svcVars, appVars, obsVars>>

(***************************************************************************)
(* Bounds                                                                  *)
(***************************************************************************)
MaxTurns == 6
MaxSends == 5
MaxCalls == 3
MaxOps == 4

(***************************************************************************)
(* Strings                                                                 *)
(***************************************************************************)
WS == {" ", "\n"}

\* String.prototype.trim
RECURSIVE TrimStart(_)
TrimStart(s) ==
    IF s # <<>> /\ Head(s) \in WS THEN TrimStart(Tail(s)) ELSE s

RECURSIVE TrimEnd(_)
TrimEnd(s) ==
    IF s # <<>> /\ s[Len(s)] \in WS THEN TrimEnd(SubSeq(s, 1, Len(s) - 1)) ELSE s

Trim(s) == TrimEnd(TrimStart(s))

\* index of the first atom of s that is in seps, 0 if none
RECURSIVE FirstIn(_, _, _)
FirstIn(s, seps, i) ==
    IF i > Len(s) THEN 0
    ELSE IF s[i] \in seps THEN i ELSE FirstIn(s, seps, i + 1)

\* String.prototype.split(c) for a one-character separator
RECURSIVE SplitOn(_, _)
SplitOn(s, c) ==
    LET i == FirstIn(s, {c}, 1)
    IN  IF i = 0 THEN <<s>>
        ELSE <<SubSeq(s, 1, i - 1)>> \o SplitOn(SubSeq(s, i + 1, Len(s)), c)

\* String.prototype.split(/\s+/): the separator is a maximal run of whitespace
RECURSIVE SplitWs(_)
SplitWs(s) ==
    LET i == FirstIn(s, WS, 1)
    IN  IF i = 0 THEN <<s>>
        ELSE <<SubSeq(s, 1, i - 1)>>
                 \o SplitWs(TrimStart(SubSeq(s, i, Len(s))))

\* Array.prototype.join(c)
RECURSIVE Join(_, _)
Join(parts, c) ==
    IF parts = <<>> THEN <<>>
    ELSE IF Len(parts) = 1 THEN parts[1]
    ELSE parts[1] \o <<c>> \o Join(Tail(parts), c)

\* String.prototype.toLowerCase, on the words the model uses
LowerAtom(a) ==
    CASE a = "Y" -> "y"
      [] a = "N" -> "n"
      [] a = "YES" -> "yes"
      [] a = "NO" -> "no"
      [] a = "OpenAI" -> "openai"
      [] OTHER -> a

toLowerCase(s) == [i \in DOMAIN s |-> LowerAtom(s[i])]

\* words whose first character is "/"
SlashAtoms == {"/model", "/models", "/setkey", "/clearkeys", "/config", "/server",
               "/servers", "/test-server", "/tools", "/help", "/status", "/logs",
               "/clearlogs", "/history", "/foo"}

\* words whose first character is "{": the JSON texts of the model
BraceAtoms == {"{a}", "{a,b}", "{a,bad}", "{u}", "{blank}", "{null}", "{arr}",
               "{str}", "{nokey}", "{none}", "{cut", "{x}", "{b}", "{c}"}

startsWith(s, c) ==
    /\ s # <<>>
    /\ \/ c = "/" /\ s[1] \in SlashAtoms
       \/ c = "{" /\ s[1] \in BraceAtoms

\* the texts that contain the substring mcpServers
includesMcpServers(s) == \E i \in DOMAIN s : s[i] \in BraceAtoms \ {"{x}"}

(***************************************************************************)
(* JSON texts.  JSON.parse is modelled by a table from the JSON texts of   *)
(* the model to the values they parse to.                                  *)
(*   {a}      {"mcpServers":{"a":{"command":"a","args":[],"env":{}}}}      *)
(*   {a,b}    {"mcpServers":{"a":{...as above...},"b":{"command":"a"}}}    *)
(*   {a,bad}  {"mcpServers":{"a":{...as above...},"b":{"args":[]}}}        *)
(*   {u}      {"mcpServers":{"u":{"url":"http"}}}                          *)
(*   {blank}  {"mcpServers":{"":{"command":"a"}}}                          *)
(*   {null}   {"mcpServers":{"a":null}}                                    *)
(*   {arr}    {"mcpServers":[{"command":"a"}]}                             *)
(*   {str}    {"mcpServers":"a"}                                           *)
(*   {nokey}  {"servers":{},"note":"mcpServers"}                           *)
(*   {none}   {"mcpServers":{}}                                            *)
(*   {cut     {"mcpServers":{         (a syntax error)                     *)
(*   {x}      {"x":1}                                                      *)
(*   {b}      {"mcpServers":{"b":{"command":"a","args":[]}}}               *)
(*   {c}      {"mcpServers":{"c":{"command":"npx","args":["-y","pkg"],     *)
(*                                "env":{"K":"V"}}}}                       *)
(***************************************************************************)
NoFields == [f \in {} |-> <<>>]

SpecA == [command |-> <<"a">>, args |-> <<>>, env |-> NoFields]

Obj(o) == [kind |-> "object", obj |-> o]
Null == [kind |-> "null", obj |-> NoFields]

JsonValue(type, entries) == [ok |-> TRUE, type |-> type, entries |-> entries]
SyntaxError == [ok |-> FALSE, type |-> "missing", entries |-> NoFields]

JsonTable(a) ==
    CASE a = "{a}" -> JsonValue("object", (<<"a">> :> Obj(SpecA)))
      [] a = "{a,b}" ->
            JsonValue("object", (<<"a">> :> Obj(SpecA))
                                    @@ (<<"b">> :> Obj([command |-> <<"a">>])))
      [] a = "{a,bad}" ->
            JsonValue("object", (<<"a">> :> Obj(SpecA))
                                    @@ (<<"b">> :> Obj([args |-> <<>>])))
      [] a = "{u}" -> JsonValue("object", (<<"u">> :> Obj([url |-> <<"http">>])))
      [] a = "{blank}" -> JsonValue("object", (<<>> :> Obj([command |-> <<"a">>])))
      [] a = "{null}" -> JsonValue("object", (<<"a">> :> Null))
      [] a = "{arr}" -> JsonValue("array", (<<"0">> :> Obj([command |-> <<"a">>])))
      [] a = "{str}" -> JsonValue("string", NoFields)
      [] a = "{nokey}" -> JsonValue("missing", NoFields)
      [] a = "{none}" -> JsonValue("object", NoFields)
      [] a = "{x}" -> JsonValue("missing", NoFields)
      [] a = "{b}" ->
            JsonValue("object", (<<"b">> :> Obj([command |-> <<"a">>, args |-> <<>>])))
      [] a = "{c}" ->
            JsonValue("object",
                      (<<"c">> :> Obj([command |-> <<"npx">>,
                                       args |-> << <<"-y">>, <<"pkg">> >>,
                                       env |-> (<<"K">> :> <<"V">>)])))
      [] OTHER -> SyntaxError

\* JSON.parse: a text is valid JSON iff it is exactly one JSON text of the table
JSONparse(s) ==
    IF Len(s) = 1 /\ s[1] \in BraceAtoms THEN JsonTable(s[1]) ELSE SyntaxError

(***************************************************************************)
(* MCPConfigService                                                        *)
(***************************************************************************)
\* a JavaScript string is truthy iff it is not empty
TruthyField(o, f) == f \in DOMAIN o /\ o[f] # <<>>

\* part_004:74-77: an entry needs a string "command" or a string "url"
EntryRejected(e) ==
    ~TruthyField(e.obj, "command") /\ ~TruthyField(e.obj, "url")

\* addServerFromJSON(jsonConfig) on the registry `servers`:
\* [success, servers, saved, data]
addServerFromJSON(servers, jsonConfig) ==
    LET parsed == JSONparse(jsonConfig)
        names == DOMAIN parsed.entries
        fail == [success |-> FALSE, servers |-> servers, saved |-> FALSE,
                 data |-> NoFields]
    IN  IF ~parsed.ok THEN fail                       \* JSON.parse throws
        ELSE IF parsed.type \notin {"object", "array"} THEN fail
        ELSE IF names = {} THEN fail
        ELSE IF names \cap DOMAIN servers # {} THEN fail
        \* server.command on null throws a TypeError, caught below
        ELSE IF \E n \in names : parsed.entries[n].kind = "null" THEN fail
        ELSE IF \E n \in names : EntryRejected(parsed.entries[n]) THEN fail
        ELSE [success |-> TRUE,
              servers |-> [n \in names |-> parsed.entries[n].obj] @@ servers,
              saved |-> TRUE,
              data |-> [serversAdded |-> TRUE, serverNames |-> names]]

\* addServer(name, config): [success, servers, saved, data]
addServer(servers, name, config) ==
    IF name \in DOMAIN servers
    THEN [success |-> FALSE, servers |-> servers, saved |-> FALSE, data |-> NoFields]
    ELSE [success |-> TRUE,
          servers |-> (name :> config) @@ servers,
          saved |-> TRUE,
          data |-> [serverAdded |-> TRUE, serverName |-> name]]

\* getConfiguredServers, were the file asked
getConfiguredServersFromFile(S) == S.file.mcpServers

\* getConfiguredServers()
getConfiguredServers(S) == S.mcpCfg.mcpServers

\* validateServerName(name).valid
validateServerName(servers, name) ==
    /\ name # <<>>
    /\ Trim(name) # <<>>
    /\ Trim(name) \notin DOMAIN servers

\* the loop body, were the value cut at its first "="
EnvLineFirstPart(envMap, line) ==
    LET parts == SplitOn(line, "=")
    IN  IF parts[1] # <<>> /\ Len(parts) > 1
        THEN (Trim(parts[1]) :> Trim(parts[2])) @@ envMap
        ELSE envMap

\* the loop body of parseEnvironmentVariables: one line of the input
EnvLine(envMap, line) ==
    LET parts == SplitOn(line, "=")
        key == parts[1]
        valueParts == Tail(parts)
    IN  IF key # <<>> /\ Len(valueParts) > 0
        THEN (Trim(key) :> Trim(Join(valueParts, "="))) @@ envMap
        ELSE envMap

RECURSIVE EnvLines(_, _)
EnvLines(envMap, lines) ==
    IF lines = <<>> THEN envMap
    ELSE EnvLines(EnvLine(envMap, Head(lines)), Tail(lines))

\* parseEnvironmentVariables(envString)
parseEnvironmentVariables(envString) ==
    IF Trim(envString) # <<>>
    THEN EnvLines(NoFields, SplitOn(Trim(envString), "\n"))
    ELSE NoFields

\* CommandResult
Result(type, data) == [type |-> type, data |-> data]

\* obj[f] = v on a JavaScript object
Put(o, f, v) == (f :> v) @@ o

\* the fields of o among fs that are defined
Pick(o, fs) == [f \in (DOMAIN o) \cap fs |-> o[f]]

\* a confirm step that took every answer for a yes
IsYesOrNo(input) == toLowerCase(Trim(input)) \in {<<"y">>, <<"yes">>, <<"n">>, <<"no">>}

IsYes(input) == toLowerCase(Trim(input)) \in {<<"y">>, <<"yes">>}
IsNo(input) == toLowerCase(Trim(input)) \in {<<"n">>, <<"no">>}

\* the wizard, were "n" at confirm to ask for the name again
handleServerConfigInputAgain(servers, input, step, serverConfig) ==
    LET config == serverConfig
        trimmedInput == Trim(input)
        keep(r) == [result |-> r, servers |-> servers, saved |-> FALSE]
        prompt(next, c) ==
            keep(Result("prompt_server_config", [step |-> next, config |-> c]))
        error == keep(Result("error", NoFields))
        done(r) == IF r.success
                   THEN [result |-> Result("success", r.data),
                         servers |-> r.servers, saved |-> r.saved]
                   ELSE error
    IN  CASE step = "name_or_json" ->
                IF startsWith(trimmedInput, "{") /\ includesMcpServers(trimmedInput)
                THEN done(addServerFromJSON(servers, trimmedInput))
                ELSE IF ~validateServerName(servers, trimmedInput) THEN error
                ELSE prompt("command", Put(config, "name", trimmedInput))
          [] step = "name" ->
                IF ~validateServerName(servers, Trim(input)) THEN error
                ELSE prompt("command", Put(config, "name", Trim(input)))
          [] step = "command" ->
                IF Trim(input) = <<>> THEN error
                ELSE prompt("args", Put(config, "command", Trim(input)))
          [] step = "args" ->
                prompt("env", Put(config, "args",
                                  IF Trim(input) # <<>> THEN SplitWs(Trim(input))
                                  ELSE <<>>))
          [] step = "env" ->
                prompt("confirm", Put(config, "env", parseEnvironmentVariables(input)))
          [] step = "confirm" ->
                IF IsYes(input)
                THEN IF ~TruthyField(config, "command") THEN error
                     ELSE done(addServer(servers,
                                         IF TruthyField(config, "name")
                                         THEN config.name ELSE <<>>,
                                         Pick(config, {"command", "args", "env"})))
                ELSE IF IsNo(input)
                THEN prompt("name", config)
                ELSE error
          [] OTHER -> error

\* handleServerConfigInput(input, step, serverConfig) on the registry `servers`:
\* [result, servers, saved]
handleServerConfigInput(servers, input, step, serverConfig) ==
    LET config == serverConfig
        trimmedInput == Trim(input)
        keep(r) == [result |-> r, servers |-> servers, saved |-> FALSE]
        prompt(next, c) ==
            keep(Result("prompt_server_config", [step |-> next, config |-> c]))
        error == keep(Result("error", NoFields))
        done(r) == IF r.success
                   THEN [result |-> Result("success", r.data),
                         servers |-> r.servers, saved |-> r.saved]
                   ELSE error
    IN  CASE step = "name_or_json" ->
                IF startsWith(trimmedInput, "{") /\ includesMcpServers(trimmedInput)
                THEN done(addServerFromJSON(servers, trimmedInput))
                ELSE IF ~validateServerName(servers, trimmedInput) THEN error
                ELSE prompt("command", Put(config, "name", trimmedInput))
          [] step = "name" ->
                IF ~validateServerName(servers, Trim(input)) THEN error
                ELSE prompt("command", Put(config, "name", Trim(input)))
          [] step = "command" ->
                IF Trim(input) = <<>> THEN error
                ELSE prompt("args", Put(config, "command", Trim(input)))
          [] step = "args" ->
                prompt("env", Put(config, "args",
                                  IF Trim(input) # <<>> THEN SplitWs(Trim(input))
                                  ELSE <<>>))
          [] step = "env" ->
                prompt("confirm", Put(config, "env", parseEnvironmentVariables(input)))
          [] step = "confirm" ->
                IF IsYes(input)
                THEN IF ~TruthyField(config, "command") THEN error
                     ELSE done(addServer(servers,
                                         IF TruthyField(config, "name")
                                         THEN config.name ELSE <<>>,
                                         Pick(config, {"command", "args", "env"})))
                ELSE IF IsNo(input)
                THEN keep(Result("info", NoFields))
                ELSE error
          [] OTHER -> error

(***************************************************************************)
(* SecureStorage and the services' state.  S is the record of the mutable  *)
(* state of the services: file, llmCfg, mcpCfg, sessionApiKeys,            *)
(* currentLLMConfig, agent.  A StoredConfig is [apiKeys, lastModel,        *)
(* mcpServers]; an absent lastModel is NoFields.                           *)
(***************************************************************************)
EmptyConfig == [apiKeys |-> NoFields, lastModel |-> NoFields, mcpServers |-> NoFields]

(***************************************************************************)
(* SecureStorage on the file system.  D is [dir, file]: whether the        *)
(* configuration directory exists, and the file.  The file is absent, text *)
(* that is not JSON, the JSON null, or a JSON object; a value of its       *)
(* apiKeys is [str, v], a string v or a value that is not a string.  io    *)
(* tells which of the system calls of this call succeed.                   *)
(***************************************************************************)
Absent == [kind |-> "absent", obj |-> NoFields]
NotJson == [kind |-> "text", obj |-> NoFields]

\* the 16 random bytes of an initialisation vector, in hex
IVs == {"iv1", "iv2"}

\* aes-256-cbc under the fixed key, block by block, in hex; the last block
\* is the padding
Blocks ==
    ("sk-long" :> "e1") @@ ("sk-ant-long" :> "e2") @@ (":" :> "e3")
        @@ ("iv1" :> "e4") @@ ("pad" :> "e5") @@ ("e1" :> "e6")

Cipher(text) == [i \in 1..Len(text) |-> Blocks[text[i]]] \o <<"pad">>

IsCipher(data) ==
    /\ data # <<>>
    /\ data[Len(data)] = "pad"
    /\ \A i \in 1..(Len(data) - 1) : \E a \in DOMAIN Blocks : Blocks[a] = data[i]

Decipher(data) ==
    [i \in 1..(Len(data) - 1) |-> CHOOSE a \in DOMAIN Blocks : Blocks[a] = data[i]]

\* encrypt, were the text written as it is
encryptNothing(text, iv, cryptoOk) == text

\* encrypt(text): iv ':' ciphertext; the text itself when the cipher throws
encrypt(text, iv, cryptoOk) ==
    IF cryptoOk THEN <<iv, ":">> \o Cipher(text) ELSE text

\* decrypt(encryptedText): the text itself when it is not iv ':' data, or when
\* the cipher throws
decrypt(encryptedText) ==
    LET parts == SplitOn(encryptedText, ":")
    IN  IF Len(parts) # 2 \/ parts[1] = <<>> \/ parts[2] = <<>> THEN encryptedText
        ELSE IF Len(parts[1]) = 1 /\ parts[1][1] \in IVs /\ IsCipher(parts[2])
        THEN Decipher(parts[2])
        ELSE encryptedText

\* ensureConfigDir(): mkdirSync is outside any try
ensureConfigDir(D, io) ==
    IF D.dir THEN [raised |-> FALSE, D |-> D]
    ELSE IF io.mkdirOk THEN [raised |-> FALSE, D |-> [D EXCEPT !.dir = TRUE]]
    ELSE [raised |-> TRUE, D |-> D]

Returned(config, D) == [raised |-> FALSE, config |-> config, D |-> D]
Raised(D) == [raised |-> TRUE, config |-> NoFields, D |-> D]

\* the value of a field of the parsed object, absent when undefined
Field(obj, f) == IF f \in DOMAIN obj THEN obj[f] ELSE NoFields

\* SecureStorage.loadConfig()
loadConfig(D, io) ==
    LET dir == ensureConfigDir(D, io)
        parsed == dir.D.file.obj
        stored == Field(parsed, "apiKeys")
        decryptedApiKeys ==
            [k \in {j \in DOMAIN stored : stored[j].str} |-> decrypt(stored[k].v)]
    IN  IF dir.raised THEN Raised(dir.D)
        ELSE IF dir.D.file.kind = "absent" THEN Returned(EmptyConfig, dir.D)
        ELSE IF ~io.readOk \/ dir.D.file.kind \in {"text", "null"}
        THEN Returned(EmptyConfig, dir.D)
        ELSE Returned([apiKeys |-> decryptedApiKeys,
                       lastModel |-> Field(parsed, "lastModel"),
                       mcpServers |-> Field(parsed, "mcpServers")], dir.D)

\* SecureStorage.saveConfig(config), on the file system
writeConfig(D, config, iv, io) ==
    LET dir == ensureConfigDir(D, io)
        encryptedApiKeys ==
            [k \in DOMAIN config.apiKeys |->
                [str |-> TRUE, v |-> encrypt(config.apiKeys[k], iv, io.cryptoOk)]]
        configToSave == [config EXCEPT !.apiKeys = encryptedApiKeys]
    IN  IF dir.raised THEN Raised(dir.D)
        ELSE IF ~io.writeOk THEN Returned(NoFields, dir.D)
        ELSE Returned(NoFields, [dir.D EXCEPT !.file = Obj(configToSave)])

\* SecureStorage.clearConfig()
clearConfig(D, io) ==
    LET dir == ensureConfigDir(D, io)
    IN  IF dir.raised THEN Raised(dir.D)
        ELSE IF dir.D.file.kind = "absent" \/ ~io.writeOk THEN Returned(NoFields, dir.D)
        ELSE Returned(NoFields, [dir.D EXCEPT !.file = Obj([apiKeys |-> NoFields])])

\* SecureStorage.saveConfig(config): a failing write is logged and swallowed
saveConfig(S, config, diskOk) ==
    IF diskOk THEN [S EXCEPT !.file = config] ELSE S

(***************************************************************************)
(* LLMService                                                              *)
(***************************************************************************)
Providers == << <<"openai">>, <<"anthropic">>, <<"google">>, <<"mistral">> >>

IsProvider(p) == \E i \in DOMAIN Providers : Providers[i] = p

envVarMap(p) ==
    CASE p = <<"openai">> -> "OPENAI_API_KEY"
      [] p = <<"anthropic">> -> "ANTHROPIC_API_KEY"
      [] p = <<"google">> -> "GOOGLE_API_KEY"
      [] p = <<"mistral">> -> "MISTRAL_API_KEY"
      [] OTHER -> "undefined"

EnvVars == {envVarMap(Providers[i]) : i \in DOMAIN Providers}

defaultModels(p) ==
    CASE p = <<"openai">> -> <<"gpt-4o-mini">>
      [] p = <<"anthropic">> -> <<"claude-3-5-sonnet-20241022">>
      [] p = <<"google">> -> <<"gemini-1.5-pro">>
      [] p = <<"mistral">> -> <<"mistral-large-latest">>
      \* no entry: the model is undefined
      [] OTHER -> <<>>

availableModels(p) ==
    CASE p = <<"openai">> ->
            {<<"gpt-4o">>, <<"gpt-4o-mini">>, <<"gpt-4-turbo">>, <<"gpt-4">>,
             <<"gpt-3.5-turbo">>}
      [] p = <<"anthropic">> ->
            {<<"claude-3-5-sonnet-20241022">>, <<"claude-3-5-haiku-20241022">>,
             <<"claude-3-opus-20240229">>, <<"claude-3-sonnet-20240229">>,
             <<"claude-3-haiku-20240307">>}
      [] p = <<"google">> ->
            {<<"gemini-1.5-pro">>, <<"gemini-1.5-flash">>, <<"gemini-pro">>}
      [] p = <<"mistral">> ->
            {<<"mistral-large-latest">>, <<"mistral-medium-latest">>,
             <<"mistral-small-latest">>}

\* temperatures are counted in tenths: 7 is 0.7
DefaultTemperature == 7

\* an optional string: the value of obj[key]
Undefined == [def |-> FALSE, v |-> <<>>]
Some(v) == [def |-> TRUE, v |-> v]
Lookup(obj, key) == IF key \in DOMAIN obj THEN Some(obj[key]) ELSE Undefined
Truthy(x) == x.def /\ x.v # <<>>
\* a || b
JsOr(a, b) == IF Truthy(a) THEN a ELSE b

\* the lookup, were the persistent store asked first
KeyFromPersistentFirst(session, persistent, environment, envVar) ==
    JsOr(JsOr(Lookup(persistent, envVar), Lookup(session, envVar)),
         Lookup(environment, envVar))

\* getApiKey(envVar) on the three sources
KeyFrom(session, persistent, environment, envVar) ==
    JsOr(JsOr(Lookup(session, envVar), Lookup(persistent, envVar)),
         Lookup(environment, envVar))

getApiKey(S, e, envVar) == KeyFrom(S.sessionApiKeys, S.llmCfg.apiKeys, e, envVar)

\* getApiKeyStatus()[provider].source
getApiKeyStatus(S, e, p) ==
    LET envVar == envVarMap(p)
    IN  IF Truthy(Lookup(S.sessionApiKeys, envVar)) THEN "session"
        ELSE IF Truthy(Lookup(S.llmCfg.apiKeys, envVar)) THEN "stored"
        ELSE IF Truthy(Lookup(e, envVar)) THEN "env"
        ELSE "none"

HasKey(S, e, p) == Truthy(getApiKey(S, e, envVarMap(p)))

getAvailableProviders(S, e) == SelectSeq(Providers, LAMBDA p : HasKey(S, e, p))

NoConfig == NoFields

LLMConfig(provider, model, temperature, rest) ==
    [provider |-> provider, model |-> model, temperature |-> temperature] @@ rest

\* initializeDefaultProvider(): the value it leaves in currentLLMConfig
initializeDefaultProvider(S, e) ==
    LET lastModel == S.llmCfg.lastModel
        avail == getAvailableProviders(S, e)
    IN  IF lastModel # NoFields /\ IsProvider(lastModel.provider)
           /\ HasKey(S, e, lastModel.provider)
        THEN LLMConfig(lastModel.provider, lastModel.model,
                       IF "temperature" \in DOMAIN lastModel
                          /\ lastModel.temperature # 0
                       THEN lastModel.temperature ELSE DefaultTemperature,
                       Pick(lastModel, {"maxTokens"}))
        ELSE IF avail # <<>>
        THEN LLMConfig(avail[1], defaultModels(avail[1]), DefaultTemperature, NoFields)
        ELSE NoConfig

\* setModel, were the credential of the provider not looked up
setModelAnyway(S, e, provider, model, diskOk) ==
    LET fail(needsKey) == [success |-> FALSE, requiresApiKey |-> needsKey,
                           envVar |-> envVarMap(provider), S |-> S]
        cur == S.currentLLMConfig
        new == LLMConfig(provider, model,
                         IF cur # NoConfig /\ cur.temperature # 0
                         THEN cur.temperature ELSE DefaultTemperature,
                         Pick(cur, {"maxTokens"}))
        S1 == [S EXCEPT !.currentLLMConfig = new, !.llmCfg.lastModel = new,
                        !.aliased = TRUE]
    IN  IF ~IsProvider(provider) THEN fail(FALSE)
        ELSE IF model \notin availableModels(provider) THEN fail(FALSE)
        ELSE [success |-> TRUE, requiresApiKey |-> FALSE, envVar |-> "undefined",
              S |-> saveConfig(S1, S1.llmCfg, diskOk)]

\* setModel(provider, model): [success, requiresApiKey, envVar, S]
setModel(S, e, provider, model, diskOk) ==
    LET fail(needsKey) ==
            [success |-> FALSE, requiresApiKey |-> needsKey,
             envVar |-> IF needsKey THEN envVarMap(provider) ELSE "undefined",
             S |-> S]
        cur == S.currentLLMConfig
        new == LLMConfig(provider, model,
                         IF cur # NoConfig /\ cur.temperature # 0
                         THEN cur.temperature ELSE DefaultTemperature,
                         Pick(cur, {"maxTokens"}))
        S1 == [S EXCEPT !.currentLLMConfig = new, !.llmCfg.lastModel = new,
                        !.aliased = TRUE]
    IN  IF ~IsProvider(provider) THEN fail(FALSE)
        ELSE IF ~HasKey(S, e, provider) THEN fail(TRUE)
        ELSE IF model \notin availableModels(provider) THEN fail(FALSE)
        ELSE [success |-> TRUE, requiresApiKey |-> FALSE, envVar |-> "undefined",
              S |-> saveConfig(S1, S1.llmCfg, diskOk)]

\* the number of characters of a string
AtomLen(a) ==
    CASE a \in {"sk-long", "sk-ant-long", "ant_long", "longkey"} -> 24
      [] a \in {"sk-short"} -> 8
      [] a \in WS \cup {"="} -> 1
      [] OTHER -> 4

RECURSIVE Length(_)
Length(s) == IF s = <<>> THEN 0 ELSE AtomLen(Head(s)) + Length(Tail(s))

HasPrefix(s, prefix) ==
    /\ s # <<>>
    /\ \/ prefix = "sk-" /\ s[1] \in {"sk-long", "sk-ant-long", "sk-short"}
       \/ prefix = "sk-ant-" /\ s[1] \in {"sk-ant-long"}
       \/ prefix = "ant_" /\ s[1] \in {"ant_long"}

MinKeyLength == 20

\* the validation, were the length alone looked at
validateApiKeyByLength(provider, apiKey) ==
    IF apiKey = <<>> \/ Trim(apiKey) = <<>> THEN FALSE
    ELSE IF IsProvider(provider) THEN ~(Length(apiKey) < MinKeyLength)
    ELSE TRUE

\* validateApiKey(provider, apiKey).valid
validateApiKey(provider, apiKey) ==
    IF apiKey = <<>> \/ Trim(apiKey) = <<>> THEN FALSE
    ELSE CASE provider = <<"openai">> ->
                 ~(~HasPrefix(apiKey, "sk-") \/ Length(apiKey) < MinKeyLength)
           [] provider = <<"anthropic">> ->
                 ~((~HasPrefix(apiKey, "ant_") /\ ~HasPrefix(apiKey, "sk-ant-"))
                    \/ Length(apiKey) < MinKeyLength)
           [] provider = <<"google">> -> ~(Length(apiKey) < MinKeyLength)
           [] provider = <<"mistral">> -> ~(Length(apiKey) < MinKeyLength)
           [] OTHER -> TRUE

\* setApiKey, were a model selected whether or not one is active
setApiKeyThenSelect(S, provider, apiKey, shouldAutoSelect, diskOk) ==
    LET S1 == [S EXCEPT !.llmCfg.apiKeys = Put(@, envVarMap(provider), apiKey)]
        S2 == saveConfig(S1, S1.llmCfg, diskOk)
        new == LLMConfig(provider, defaultModels(provider), DefaultTemperature,
                         NoFields)
    IN  IF ~validateApiKey(provider, apiKey)
        THEN [success |-> FALSE, autoSelected |-> NoConfig, S |-> S]
        ELSE IF shouldAutoSelect
        THEN [success |-> TRUE, autoSelected |-> new,
              S |-> [S2 EXCEPT !.currentLLMConfig = new]]
        ELSE [success |-> TRUE, autoSelected |-> NoConfig, S |-> S2]

\* setApiKey(provider, apiKey, shouldAutoSelect): [success, autoSelected, S]
setApiKey(S, provider, apiKey, shouldAutoSelect, diskOk) ==
    LET S1 == [S EXCEPT !.llmCfg.apiKeys = Put(@, envVarMap(provider), apiKey)]
        S2 == saveConfig(S1, S1.llmCfg, diskOk)
        auto == shouldAutoSelect /\ S.currentLLMConfig = NoConfig
        new == LLMConfig(provider, defaultModels(provider), DefaultTemperature,
                         NoFields)
    IN  IF ~validateApiKey(provider, apiKey)
        THEN [success |-> FALSE, autoSelected |-> NoConfig, S |-> S]
        ELSE IF auto
        THEN [success |-> TRUE, autoSelected |-> new,
              S |-> [S2 EXCEPT !.currentLLMConfig = new]]
        ELSE [success |-> TRUE, autoSelected |-> NoConfig, S |-> S2]

\* clearApiKeys, were the session keys left alone
clearApiKeysStoredOnly(S, diskOk) ==
    LET S1 == [S EXCEPT !.llmCfg.apiKeys = NoFields,
                        !.llmCfg.lastModel = NoFields,
                        !.currentLLMConfig = NoConfig,
                        !.aliased = FALSE]
    IN  saveConfig(S1, S1.llmCfg, diskOk)

\* clearApiKeys()
clearApiKeys(S, diskOk) ==
    LET S1 == [S EXCEPT !.sessionApiKeys = NoFields,
                        !.llmCfg.apiKeys = NoFields,
                        !.llmCfg.lastModel = NoFields,
                        !.currentLLMConfig = NoConfig,
                        !.aliased = FALSE]
    IN  saveConfig(S1, S1.llmCfg, diskOk)

\* a handler's outcome
Out(r, S) == [result |-> r, S |-> S]

\* an assignment to a field of the currentLLMConfig object; persistentConfig's
\* lastModel changes with it when it is that object
SetField(S, f, v) ==
    IF S.aliased
    THEN [S EXCEPT !.currentLLMConfig = Put(@, f, v),
                   !.llmCfg.lastModel = Put(S.currentLLMConfig, f, v)]
    ELSE [S EXCEPT !.currentLLMConfig = Put(@, f, v)]

\* temperatures are counted in tenths: 20 is 2.0
MaxTemperature == 20

\* setTemperature, were the value not checked against the range
setTemperatureUnchecked(S, temperature) ==
    IF S.currentLLMConfig = NoConfig THEN [success |-> FALSE, S |-> S]
    ELSE [success |-> TRUE, S |-> SetField(S, "temperature", temperature)]

\* setTemperature(temperature): [success, S]
setTemperature(S, temperature) ==
    IF S.currentLLMConfig = NoConfig THEN [success |-> FALSE, S |-> S]
    ELSE IF temperature < 0 \/ temperature > MaxTemperature
    THEN [success |-> FALSE, S |-> S]
    ELSE [success |-> TRUE, S |-> SetField(S, "temperature", temperature)]

MinTokens == 1

\* setMaxTokens(maxTokens): [success, S]
setMaxTokens(S, maxTokens) ==
    IF S.currentLLMConfig = NoConfig THEN [success |-> FALSE, S |-> S]
    ELSE IF maxTokens < MinTokens THEN [success |-> FALSE, S |-> S]
    ELSE [success |-> TRUE, S |-> SetField(S, "maxTokens", maxTokens)]

\* a JavaScript number: NaN or a value
NaN == [nan |-> TRUE, n |-> 0]
Num(n) == [nan |-> FALSE, n |-> n]

\* parseFloat(value), in tenths, on the values the model uses: the longest
\* prefix that is a number is parsed
parseFloat(value) ==
    CASE value = <<"0">> -> Num(0)
      [] value = <<"0.5">> -> Num(5)
      [] value = <<"1.5x">> -> Num(15)
      [] value = <<"2">> -> Num(20)
      [] value = <<"2.1">> -> Num(21)
      [] value = <<"-1">> -> Num(-10)
      [] value = <<"100">> -> Num(1000)
      [] OTHER -> NaN

\* parseInt(value): the longest prefix that is an integer is parsed
parseInt(value) ==
    CASE value = <<"0">> -> Num(0)
      [] value = <<"0.5">> -> Num(0)
      [] value = <<"1.5x">> -> Num(1)
      [] value = <<"2">> -> Num(2)
      [] value = <<"2.1">> -> Num(2)
      [] value = <<"-1">> -> Num(-1)
      [] value = <<"100">> -> Num(100)
      [] OTHER -> NaN

\* handleConfigCommand(args), from the call of the setter on; r is what the
\* setter returned
ConfigSet(S, r) ==
    IF ~r.success THEN Out(Result("error", NoFields), S)
    ELSE Out(Result("success", [llmConfig |-> r.S.currentLLMConfig]), r.S)

\* handleConfigCommand(args), once the number is parsed
ConfigParsed(S, setting, num) ==
    IF num.nan THEN Out(Result("error", NoFields), S)
    ELSE IF setting \in {<<"temp">>, <<"temperature">>}
    THEN ConfigSet(S, setTemperature(S, num.n))
    ELSE ConfigSet(S, setMaxTokens(S, num.n))

\* handleConfigCommand(args)
handleConfigCommand(S, args) ==
    IF Len(args) < 2 THEN Out(Result("error", NoFields), S)
    ELSE IF args[2] = <<>> THEN Out(Result("error", NoFields), S)
    ELSE IF S.currentLLMConfig = NoConfig THEN Out(Result("error", NoFields), S)
    ELSE IF args[1] \in {<<"temp">>, <<"temperature">>}
    THEN ConfigParsed(S, args[1], parseFloat(args[2]))
    ELSE IF args[1] \in {<<"tokens">>, <<"max-tokens">>}
    THEN ConfigParsed(S, args[1], parseInt(args[2]))
    ELSE Out(Result("error", NoFields), S)

\* the same, were provider and model exchanged in the data of the prompt
ModelSelectedSwapped(S, provider, model, r) ==
    IF provider = <<>> \/ model = <<>> THEN Out(Result("error", NoFields), S)
    ELSE IF ~IsProvider(provider) THEN Out(Result("error", NoFields), S)
    ELSE IF ~r.success
    THEN IF r.requiresApiKey
         THEN Out(Result("prompt_key",
                         [provider |-> model, model |-> provider,
                          envVar |-> r.envVar]), S)
         ELSE Out(Result("error", NoFields), S)
    ELSE Out(Result("success", [llmConfig |-> r.S.currentLLMConfig]), r.S)

\* handleModelCommand(args), from the call of setModel on; r is what it returned
ModelSelected(S, provider, model, r) ==
    IF provider = <<>> \/ model = <<>> THEN Out(Result("error", NoFields), S)
    ELSE IF ~IsProvider(provider) THEN Out(Result("error", NoFields), S)
    ELSE IF ~r.success
    THEN IF r.requiresApiKey
         THEN Out(Result("prompt_key",
                         [provider |-> provider, model |-> model,
                          envVar |-> r.envVar]), S)
         ELSE Out(Result("error", NoFields), S)
    ELSE Out(Result("success", [llmConfig |-> r.S.currentLLMConfig]), r.S)

\* handleModelCommand(args)
handleModelCommand(S, e, args, diskOk) ==
    IF Len(args) < 2
    THEN IF getAvailableProviders(S, e) = <<>>
         THEN Out(Result("info", NoFields), S)
         ELSE Out(Result("error", NoFields), S)
    ELSE ModelSelected(S, args[1], args[2], setModel(S, e, args[1], args[2], diskOk))

\* handleSetKeyCommand(args), from the call of setApiKey on; r is what it returned
KeySet(S, provider, apiKey, r) ==
    IF provider = <<>> \/ apiKey = <<>> THEN Out(Result("error", NoFields), S)
    ELSE IF ~IsProvider(provider) THEN Out(Result("error", NoFields), S)
    ELSE IF ~r.success THEN Out(Result("error", NoFields), S)
    ELSE IF r.autoSelected # NoConfig
    THEN Out(Result("success", [llmConfig |-> r.autoSelected]), r.S)
    ELSE Out(Result("success", NoFields), r.S)

\* handleSetKeyCommand(args)
handleSetKeyCommand(S, args, diskOk) ==
    IF Len(args) < 2 THEN Out(Result("error", NoFields), S)
    ELSE KeySet(S, toLowerCase(args[1]), args[2],
                setApiKey(S, toLowerCase(args[1]), args[2],
                          S.currentLLMConfig = NoConfig, diskOk))

\* handleClearKeysCommand(): data is {llmConfig: null}
handleClearKeysCommand(S, diskOk) ==
    Out(Result("success", [llmConfig |-> NoConfig]), clearApiKeys(S, diskOk))

\* handleApiKeyInput, from the call of setModel on
KeyThenModel(modelResult) ==
    IF ~modelResult.success
    THEN Out(Result("error", NoFields), modelResult.S)
    ELSE Out(Result("success", [llmConfig |-> modelResult.S.currentLLMConfig]),
             modelResult.S)

\* handleApiKeyInput, from the call of setApiKey on
KeyEntered(S, e, provider, model, diskOk, keyResult) ==
    IF ~keyResult.success THEN Out(Result("error", NoFields), S)
    ELSE KeyThenModel(setModel(keyResult.S, e, provider, model, diskOk))

\* handleApiKeyInput(apiKey, provider, model)
handleApiKeyInput(S, e, apiKey, provider, model, diskOk) ==
    KeyEntered(S, e, provider, model, diskOk,
               setApiKey(S, provider, apiKey, FALSE, diskOk))

(***************************************************************************)
(* /status.  A key is masked character by character: a character is        *)
(* [of, at], the at-th character of the word `of`, and Star is '*'.        *)
(***************************************************************************)
Star == [of |-> "*", at |-> 0]

RECURSIVE Chars(_)
Chars(s) ==
    IF s = <<>> THEN <<>>
    ELSE [i \in 1..AtomLen(Head(s)) |-> [of |-> Head(s), at |-> i]] \o Chars(Tail(s))

Stars(n) == [i \in 1..n |-> Star]

\* the mask, were the key shown as it is
maskApiKeyNone(apiKey) == Chars(apiKey)

\* maskApiKey(apiKey)
maskApiKey(apiKey) ==
    LET c == Chars(apiKey)
        n == Len(c)
    IN  IF n <= 8 THEN Stars(n)
        ELSE SubSeq(c, 1, 4) \o Stars(IF n - 8 < 12 THEN n - 8 ELSE 12)
                 \o SubSeq(c, n - 3, n)

\* getApiKeyStatus()[provider]
KeyStatus(S, e, p) ==
    LET source == getApiKeyStatus(S, e, p)
        from == CASE source = "session" -> S.sessionApiKeys
                  [] source = "stored" -> S.llmCfg.apiKeys
                  [] OTHER -> e
    IN  IF source = "none"
        THEN [status |-> "not_set", source |-> "none", masked |-> <<>>]
        ELSE [status |-> "set", source |-> source,
              masked |-> maskApiKey(from[envVarMap(p)])]

\* handleStatusCommand(): what the message reports, the keys by provider and
\* the active model
handleStatusCommand(S, e) ==
    LET currentConfig == S.currentLLMConfig
    IN  [keys |-> [i \in DOMAIN Providers |-> KeyStatus(S, e, Providers[i])],
         active |->
            IF currentConfig = NoConfig THEN NoConfig
            ELSE [provider |-> currentConfig.provider,
                  model |-> currentConfig.model,
                  temperature |->
                      IF "temperature" \in DOMAIN currentConfig
                         /\ currentConfig.temperature # 0
                      THEN currentConfig.temperature ELSE DefaultTemperature]]

(***************************************************************************)
(* AgentService                                                            *)
(***************************************************************************)
NoAgent == NoFields

\* createLLM() returns a model handle (it throws otherwise)
createLLMSucceeds(S, e) ==
    /\ S.currentLLMConfig # NoConfig
    /\ HasKey(S, e, S.currentLLMConfig.provider)

\* AgentService.isReady()
isReady(S) == S.agent # NoAgent

\* initializeAgent(): a new agent is built around createLLM(); when createLLM()
\* throws, the agent the service already holds (if any) stays in place
initializeAgent(S, e) ==
    IF ~createLLMSucceeds(S, e) THEN S
    ELSE [S EXCEPT !.agent = [llm |-> S.currentLLMConfig]]

(***************************************************************************)
(* CLIService                                                              *)
(***************************************************************************)
\* registerCommands(): the keys of commandRegistry
CommandKeys ==
    {<<"/model">>, <<"/models">>, <<"/setkey">>, <<"/clearkeys">>, <<"/config">>,
     <<"/server">>, <<"/server", " ", "add">>, <<"/server", " ", "connect">>,
     <<"/server", " ", "disconnect">>, <<"/servers">>, <<"/test-server">>,
     <<"/tools">>, <<"/help">>, <<"/status">>, <<"/logs">>, <<"/clearlogs">>,
     <<"/history">>}

NoEntry == <<>>

\* isCommand(input)
isCommand(input) == startsWith(Trim(input), "/")

\* the lookup, were the one-token key tried first
LookupCommandBaseFirst(input) ==
    LET parts == SplitWs(Trim(input))
        command == parts[1]
        args == Tail(parts)
        withSubcommand == command \o <<" ">> \o args[1]
    IN  IF command \in CommandKeys
        THEN [key |-> command, args |-> args]
        ELSE IF Len(args) > 0 /\ withSubcommand \in CommandKeys
        THEN [key |-> withSubcommand, args |-> Tail(args)]
        ELSE [key |-> NoEntry, args |-> args]

\* handleCommand(input), lines 211-230: the registry entry and the arguments
LookupCommand(input) ==
    LET parts == SplitWs(Trim(input))
        command == parts[1]
        args == Tail(parts)
        withSubcommand == command \o <<" ">> \o args[1]
    IN  IF Len(args) > 0 /\ withSubcommand \in CommandKeys
        THEN [key |-> withSubcommand, args |-> Tail(args)]
        ELSE IF command \in CommandKeys
        THEN [key |-> command, args |-> args]
        ELSE [key |-> NoEntry, args |-> args]

\* the partial words of the model, each with the words it is the beginning of
Beginnings ==
    {<<"op", "openai">>, <<"a", "add">>, <<"a", "anthropic">>, <<"co", "connect">>,
     <<"/serv", "/server">>, <<"/serv", "/servers">>, <<"/server", "/servers">>,
     <<"/mo", "/model">>, <<"/mo", "/models">>, <<"/model", "/models">>}

\* String.prototype.startsWith, for a string and a candidate of one word
StartsWith(s, prefix) ==
    \/ prefix = <<>>
    \/ s = prefix
    \/ Len(s) = 1 /\ Len(prefix) = 1 /\ <<prefix[1], s[1]>> \in Beginnings

\* text.slice(0, -n), n counted in words; slice(0, -0) is slice(0, 0)
SliceOff(text, n) == IF n = 0 THEN <<>> ELSE SubSeq(text, 1, Len(text) - n)

endsWith(text, c) == text # <<>> /\ text[Len(text)] = c

\* the getSuggestions of a registry entry, as a set; getAllProviderNames is
\* taken to return the names of the four providers
EntrySuggestions(S, connected, key, args) ==
    CASE key = <<"/model">> ->
            IF Len(args) <= 1 THEN {Providers[i] : i \in DOMAIN Providers} ELSE {}
      [] key = <<"/server">> -> {<<"add">>, <<"connect">>, <<"disconnect">>}
      [] key = <<"/server", " ", "connect">> ->
            (DOMAIN S.mcpCfg.mcpServers) \ connected
      [] key = <<"/server", " ", "disconnect">> -> connected
      [] OTHER -> {}

\* getPotentialCommands(input), lines 728-761: split on the single space
getPotentialCommands(input) ==
    LET ps == SplitOn(Trim(input), " ")
        twoPartCmd == ps[1] \o <<" ">> \o ps[2]
    IN  (IF Len(ps) >= 2 /\ twoPartCmd \in CommandKeys
         THEN <<[cmd |-> twoPartCmd, args |-> SubSeq(ps, 3, Len(ps))]>> ELSE <<>>)
        \o (IF ps[1] \in CommandKeys
            THEN <<[cmd |-> ps[1], args |-> Tail(ps)]>> ELSE <<>>)

\* getSuggestions(text): [suggestions, key, args], the suggestions as a set
\* and the registry entry and arguments they were made from
getSuggestions(S, connected, text) ==
    LET parts == SplitWs(Trim(text))
        commandName == parts[1]
        potentialCommands == getPotentialCommands(text)
        chosen == IF Len(potentialCommands) > 1
                     /\ Len(potentialCommands[1].cmd) > Len(potentialCommands[2].cmd)
                  THEN potentialCommands[1]
                  ELSE potentialCommands[Len(potentialCommands)]
        suggestions == EntrySuggestions(S, connected, chosen.cmd, chosen.args)
        lastArg == IF endsWith(text, " ") \/ chosen.args = <<>> THEN <<>>
                   ELSE chosen.args[Len(chosen.args)]
        baseCommand == IF endsWith(text, " ") THEN text
                       ELSE SliceOff(text, Len(lastArg))
    IN  IF \A i \in DOMAIN text : text[i] # " "
        THEN [suggestions |-> {c \in CommandKeys :
                                  StartsWith(c, commandName) /\ Len(c) = 1},
              key |-> NoEntry, args |-> <<>>]
        ELSE IF potentialCommands = <<>>
        THEN [suggestions |-> {}, key |-> NoEntry, args |-> <<>>]
        ELSE [suggestions |->
                  {baseCommand \o c : c \in {x \in suggestions : StartsWith(x, lastArg)}},
              key |-> chosen.cmd, args |-> chosen.args]

\* MCPConfigService.handleTestServerCommand(args)
handleTestServerCommand(S, args) ==
    IF Len(args) = 0
    THEN IF DOMAIN S.mcpCfg.mcpServers = {} THEN Result("error", NoFields)
         ELSE Result("info", NoFields)
    ELSE IF args[1] = <<>> THEN Result("error", NoFields)
    ELSE IF args[1] \notin DOMAIN S.mcpCfg.mcpServers THEN Result("error", NoFields)
    ELSE Result("info", [testServer |-> TRUE, serverName |-> args[1]])

\* the handler registered under `key`, applied to args.  /server connect,
\* /server disconnect, /logs and /clearlogs act on state that is not modelled and
\* are never typed.
RunHandler(S, e, key, args, diskOk) ==
    CASE key = <<"/model">> -> handleModelCommand(S, e, args, diskOk)
      \* handleListModelsCommand() is called without its argument: args.length
      \* throws, and handleCommand turns that into an error result
      [] key = <<"/models">> -> Out(Result("error", NoFields), S)
      [] key = <<"/setkey">> -> handleSetKeyCommand(S, args, diskOk)
      [] key = <<"/clearkeys">> -> handleClearKeysCommand(S, diskOk)
      [] key = <<"/config">> -> handleConfigCommand(S, args)
      [] key = <<"/server">> ->
            Out(Result(IF Len(args) = 0 THEN "info" ELSE "error", NoFields), S)
      [] key = <<"/server", " ", "add">> ->
            Out(Result("prompt_server_config", [step |-> "name_or_json"]), S)
      [] key = <<"/servers">> ->
            Out(IF DOMAIN S.mcpCfg.mcpServers = {} THEN Result("info", NoFields)
                ELSE Result("list_servers", [servers |-> S.mcpCfg.mcpServers]), S)
      [] key = <<"/test-server">> -> Out(handleTestServerCommand(S, args), S)
      [] key = <<"/tools">> -> Out(Result("info", [checkTools |-> TRUE]), S)
      [] key = <<"/status">> ->
            Out([type |-> "info", data |-> NoFields,
                 message |-> handleStatusCommand(S, e)], S)
      [] key \in {<<"/help">>, <<"/history">>} ->
            Out(Result("info", NoFields), S)

\* what handleCommand returns, with the registry entry it used
Dispatched(entry, out) ==
    [result |-> out.result, S |-> out.S, dispatched |-> entry]

\* handleCommand(input), lines 232-253, for the registry entry found
Dispatch(S, e, entry, diskOk) ==
    IF entry.key = NoEntry
    THEN Dispatched(entry, Out(Result("error", NoFields), S))
    ELSE Dispatched(entry, RunHandler(S, e, entry.key, entry.args, diskOk))

\* handleCommand(input): [result, S, dispatched]
handleCommand(S, e, input, diskOk) == Dispatch(S, e, LookupCommand(input), diskOk)

NoDispatch == [key |-> NoEntry, args |-> <<>>]
NoResult == Result("none", NoFields)

\* data.f is truthy
DataFlag(r, f) == f \in DOMAIN r.data /\ r.data[f] = TRUE
HasLLMConfig(r) == "llmConfig" \in DOMAIN r.data /\ r.data.llmConfig # NoConfig

\* what sendMessage yields last: the state it leaves, the branch taken, the
\* command result, the registry entry used, and whether it asked for a new agent
Ret(S, e, rt, r, d, ri) ==
    [S |-> IF ri THEN initializeAgent(S, e) ELSE S,
     route |-> rt, result |-> r, dispatched |-> d, reinit |-> ri]

\* MCPConfigService writes its copy of the configuration
SaveServers(S, diskOk) == saveConfig(S, S.mcpCfg, diskOk)

\* the branch, were the wizard to look names up in the registry it last wrote
\* to the file
WizardRouteFromFile(S, e, a, wiz) ==
    LET old == handleServerConfigInput(S.file.mcpServers, Trim(a.message),
                                       a.serverConfigStep, a.serverConfig)
    IN  Ret(IF old.saved
            THEN SaveServers([S EXCEPT !.mcpCfg.mcpServers = old.servers], a.diskOk)
            ELSE S,
            e, "wizard", old.result, NoDispatch, FALSE)

\* lines 286-300
WizardRoute(S, e, a, wiz) ==
    Ret(IF wiz.saved
        THEN SaveServers([S EXCEPT !.mcpCfg.mcpServers = wiz.servers], a.diskOk)
        ELSE S,
        e, "wizard", wiz.result, NoDispatch, FALSE)

\* the branch, were a new agent asked for whatever the result
CredentialRouteAlways(e, key) ==
    Ret(key.S, e, "credential", key.result, NoDispatch, TRUE)

\* lines 303-324
CredentialRoute(e, key) ==
    Ret(key.S, e, "credential", key.result, NoDispatch, HasLLMConfig(key.result))

\* lines 326-385
CommandRoute(e, cmd) ==
    IF DataFlag(cmd.result, "checkTools")
    THEN Ret(cmd.S, e, "command", Result("list_tools", NoFields), cmd.dispatched,
             FALSE)
    ELSE Ret(cmd.S, e, "command", cmd.result, cmd.dispatched,
             \/ HasLLMConfig(cmd.result)
             \/ DataFlag(cmd.result, "serversAdded")
             \/ DataFlag(cmd.result, "reinitializeAgent"))

\* the routing, were a command looked for before the awaiting flags
sendMessageCommandFirst(S, e, a) ==
    IF isCommand(a.message)
    THEN CommandRoute(e, handleCommand(S, e, a.message, a.diskOk))
    ELSE IF a.isServerConfigInput /\ a.serverConfigStep # ""
    THEN WizardRoute(S, e, a,
                     handleServerConfigInput(S.mcpCfg.mcpServers, Trim(a.message),
                                             a.serverConfigStep, a.serverConfig))
    ELSE IF a.isApiKeyInput /\ a.pendingProvider # <<>> /\ a.pendingModel # <<>>
    THEN CredentialRoute(e, handleApiKeyInput(S, e, Trim(a.message),
                                              a.pendingProvider, a.pendingModel,
                                              a.diskOk))
    ELSE IF ~isReady(S)
    THEN Ret(S, e, "guidance", NoResult, NoDispatch, FALSE)
    ELSE Ret(S, e, "agent", NoResult, NoDispatch, FALSE)

\* sendMessage(message, isApiKeyInput, pendingProvider, pendingModel,
\*             isServerConfigInput, serverConfigStep, serverConfig);
\* a is the record of the arguments and of the outcome of the disk write.
sendMessage(S, e, a) ==
    IF a.isServerConfigInput /\ a.serverConfigStep # ""
    THEN WizardRoute(S, e, a,
                     handleServerConfigInput(S.mcpCfg.mcpServers, Trim(a.message),
                                             a.serverConfigStep, a.serverConfig))
    ELSE IF a.isApiKeyInput /\ a.pendingProvider # <<>> /\ a.pendingModel # <<>>
    THEN CredentialRoute(e, handleApiKeyInput(S, e, Trim(a.message),
                                              a.pendingProvider, a.pendingModel,
                                              a.diskOk))
    ELSE IF isCommand(a.message)
    THEN CommandRoute(e, handleCommand(S, e, a.message, a.diskOk))
    ELSE IF ~isReady(S)
    THEN Ret(S, e, "guidance", NoResult, NoDispatch, FALSE)
    ELSE Ret(S, e, "agent", NoResult, NoDispatch, FALSE)

(***************************************************************************)
(* Input lines                                                             *)
(***************************************************************************)
PlainLines == {<<"hello">>, <<>>}

CommandLines ==
    {<<"/help">>, <<"/foo">>, <<"/foo", " ", "add">>, <<"/server">>,
     <<"/server", " ", "add">>, <<"/server", " ", "add", " ", "x">>,
     <<"/server", " ", "list">>, <<"/servers">>, <<"/tools">>, <<"/models">>,
     <<"/model">>, <<"/model", " ", "openai", " ", "gpt-4o">>,
     <<"/setkey", " ", "OpenAI", " ", "sk-long">>,
     <<"/setkey", " ", "openai", " ", "sk-short">>, <<"/clearkeys">>,
     <<"/test-server", " ", "a">>, <<" ", "/help", " ">>}

NameLines == {<<"a">>, <<"A">>, <<" ", "a", " ">>}
JsonLines == {<<x>> : x \in BraceAtoms}
TypedJson == {<<"{a}">>, <<"{a,bad}">>, <<"{blank}">>}
CmdLines == {<<"npx">>, <<" ", "npx", " ", "-y", " ">>}
ArgLines == {<<"-y", " ", "pkg">>, <<"-y", " ", "\n", "pkg">>}
EnvInputs == {<<"K", "=", "V">>, <<"K", "=", "V", "\n", "J", " ", "=", "W", "=", "X">>,
              <<"junk">>}
ConfirmLines == {<<"y">>, <<"YES">>, <<"n">>, <<"NO">>, <<"maybe">>}
KeyLines == {<<"sk-long">>, <<"sk-short">>}

Steps == {"name_or_json", "name", "command", "args", "env", "confirm"}

\* what a user would type at a step of the wizard, and some lines they would not
StepLines(step) ==
    CASE step \in {"name_or_json", "name"} -> NameLines \cup JsonLines
      [] step = "command" -> CmdLines
      [] step = "args" -> ArgLines
      [] step = "env" -> EnvInputs
      [] step = "confirm" -> ConfirmLines
      [] OTHER -> {}

StrayLines == {<<>>, <<"/help">>, <<"hello">>}

(***************************************************************************)
(* The state of the services as one record, and back                       *)
(***************************************************************************)
Svc == [file |-> file, llmCfg |-> llmCfg, mcpCfg |-> mcpCfg,
        sessionApiKeys |-> sessionApiKeys, currentLLMConfig |-> currentLLMConfig,
        agent |-> agent, aliased |-> aliased, inflight |-> inflight,
        client |-> client, initialization |-> initialization]

SetSvc(S) ==
    /\ file' = S.file
    /\ llmCfg' = S.llmCfg
    /\ mcpCfg' = S.mcpCfg
    /\ sessionApiKeys' = S.sessionApiKeys
    /\ currentLLMConfig' = S.currentLLMConfig
    /\ agent' = S.agent
    /\ aliased' = S.aliased
    /\ inflight' = S.inflight
    /\ client' = S.client
    /\ initialization' = S.initialization
    /\ env' = env
    /\ disk' = disk

\* the arguments of one sendMessage call
Args(message, isApiKeyInput, provider, model, isServerConfigInput, step, config,
     diskOk) ==
    [op |-> "sendMessage", message |-> message, isApiKeyInput |-> isApiKeyInput,
     pendingProvider |-> provider, pendingModel |-> model,
     isServerConfigInput |-> isServerConfigInput, serverConfigStep |-> step,
     serverConfig |-> config, diskOk |-> diskOk]

IsPrompt(r) == r.type = "prompt_server_config"

\* the call passes back the {step, config} of the prompt just returned
PassesBack(a) ==
    /\ fed # <<>>
    /\ IsPrompt(result)
    /\ a.serverConfigStep = result.data.step
    /\ a.serverConfig = result.data.config

StartsFlow(a) == a.serverConfigStep = "name_or_json" /\ a.serverConfig = NoFields

\* bookkeeping of the wizard flow in progress
Track(a, r) ==
    LET inFlow == r.route = "wizard" /\ r.result.type # "error"
                    /\ (StartsFlow(a) \/ PassesBack(a))
    IN  /\ fed' = IF ~inFlow THEN <<>>
                  ELSE IF StartsFlow(a) THEN <<a.message>>
                  ELSE Append(fed, a.message)
        /\ before' = IF inFlow /\ StartsFlow(a)
                     THEN [servers |-> mcpCfg.mcpServers, file |-> file]
                     ELSE before

Observe(a, r) ==
    /\ call' = a
    /\ route' = r.route
    /\ result' = r.result
    /\ dispatched' = r.dispatched
    /\ reinit' = r.reinit
    /\ Track(a, r)
    /\ turns' = turns + 1

(***************************************************************************)
(* App.handleSubmit: the terminal user interface, which carries the        *)
(* awaiting flags from one turn to the next                                *)
(***************************************************************************)
\* data.config || null
ConfigOf(r) == IF "config" \in DOMAIN r.data THEN r.data.config ELSE NoFields

ClearServerConfig ==
    /\ isWaitingForServerConfig' = FALSE
    /\ serverConfigStep' = ""
    /\ currentServerConfig' = NoFields

ClearApiKey ==
    /\ isWaitingForApiKey' = FALSE
    /\ pendingProvider' = <<>>
    /\ pendingModel' = <<>>

\* what the user types, given what the interface is asking for
TypedCommands ==
    {<<"/help">>, <<"/foo">>, <<"/server", " ", "add">>, <<"/tools">>,
     <<"/model", " ", "openai", " ", "gpt-4o">>,
     <<"/model", " ", "openai", " ", "gpt-9">>,
     <<"/setkey", " ", "OpenAI", " ", "sk-long">>, <<"/clearkeys">>}

Typed ==
    IF isWaitingForServerConfig
    THEN (StepLines(serverConfigStep) \ (JsonLines \ TypedJson)) \cup StrayLines
    ELSE IF isWaitingForApiKey THEN KeyLines \cup StrayLines
    ELSE PlainLines \cup TypedCommands

\* lines 330-581, once sendMessage has returned r for the arguments a
Submitted(a, r) ==
    LET cr == r.result
        hasResult == cr.type # "none"
        again == hasResult /\ DataFlag(cr, "reinitializeAgent")
    IN  /\ Observe(a, r)
        /\ IF isWaitingForServerConfig
           THEN IF ~hasResult
                THEN SetSvc(r.S) /\ UNCHANGED appVars
                ELSE IF IsPrompt(cr)
                THEN /\ SetSvc(r.S)
                     /\ serverConfigStep' = cr.data.step
                     /\ currentServerConfig' = cr.data.config
                     /\ UNCHANGED <<isWaitingForServerConfig, isWaitingForApiKey,
                                    pendingProvider, pendingModel>>
                ELSE /\ SetSvc(IF again THEN initializeAgent(r.S, env) ELSE r.S)
                     /\ ClearServerConfig
                     /\ UNCHANGED <<isWaitingForApiKey, pendingProvider,
                                    pendingModel>>
           ELSE IF isWaitingForApiKey
           THEN /\ SetSvc(r.S)
                /\ IF hasResult THEN ClearApiKey
                   ELSE UNCHANGED <<isWaitingForApiKey, pendingProvider,
                                    pendingModel>>
                /\ UNCHANGED <<isWaitingForServerConfig, serverConfigStep,
                               currentServerConfig>>
           ELSE /\ SetSvc(IF again THEN initializeAgent(r.S, env) ELSE r.S)
                /\ IF hasResult /\ cr.type = "prompt_key"
                   THEN /\ isWaitingForApiKey' = TRUE
                        /\ pendingProvider' = cr.data.provider
                        /\ pendingModel' = cr.data.model
                        /\ UNCHANGED <<isWaitingForServerConfig, serverConfigStep,
                                       currentServerConfig>>
                   ELSE IF hasResult /\ IsPrompt(cr)
                   THEN /\ isWaitingForServerConfig' = TRUE
                        /\ serverConfigStep' = cr.data.step
                        /\ currentServerConfig' = ConfigOf(cr)
                        /\ UNCHANGED <<isWaitingForApiKey, pendingProvider,
                                       pendingModel>>
                   ELSE UNCHANGED appVars

\* the arguments handleSubmit passes to sendMessage
SubmitArgs(trimmedInput, diskOk) ==
    IF isWaitingForServerConfig
    THEN Args(trimmedInput, FALSE, <<>>, <<>>, TRUE, serverConfigStep,
              currentServerConfig, diskOk)
    ELSE IF isWaitingForApiKey
    THEN Args(trimmedInput, TRUE, pendingProvider, pendingModel, FALSE, "",
              NoFields, diskOk)
    ELSE Args(trimmedInput, FALSE, <<>>, <<>>, FALSE, "", NoFields, diskOk)

HandleSubmit(userInput, diskOk) ==
    /\ turns < MaxTurns
    /\ IF Trim(userInput) = <<>>
       THEN \* if (!userInput.trim()) return;
            /\ call' = [op |-> "handleSubmit", message |-> userInput]
            /\ route' = "ignored"
            /\ turns' = turns + 1
            /\ UNCHANGED <<svcVars, appVars, result, dispatched, reinit, fed, before>>
       ELSE \E a \in {SubmitArgs(Trim(userInput), diskOk)} :
               \E r \in {sendMessage(Svc, env, a)} : Submitted(a, r)

(***************************************************************************)
(* Direct calls of the services' entry points, with whatever arguments a   *)
(* caller may pass                                                         *)
(***************************************************************************)
\* a caller that is given a line and nothing else
PlainCalls ==
    {Args(m, FALSE, <<>>, <<>>, FALSE, "", NoFields, TRUE) :
        m \in PlainLines \cup CommandLines}

\* a caller that says the line is a credential
CredentialCalls ==
    {Args(m, TRUE, p, <<"gpt-4o">>, FALSE, "", NoFields, TRUE) :
        m \in KeyLines \cup {<<"/help">>}, p \in {<<"openai">>, <<>>}}

\* a caller that starts the wizard, or passes back the {step, config} of the
\* prompt it was just given
FlowCalls ==
    {Args(m, FALSE, <<>>, <<>>, TRUE, "name_or_json", NoFields, TRUE) :
        m \in NameLines \cup TypedJson \cup StrayLines}
    \cup (IF fed # <<>> /\ IsPrompt(result)
          THEN {Args(m, FALSE, <<>>, <<>>, TRUE, result.data.step,
                     result.data.config, TRUE) :
                   m \in StepLines(result.data.step) \cup StrayLines}
          ELSE {})

\* {step, config} tuples the wizard never returned
Tuples ==
    {[command |-> <<"npx">>],
     [name |-> <<"b">>],
     [name |-> <<"a">>, command |-> <<"npx">>, args |-> <<>>, env |-> NoFields]}

\* a caller that sets both flags
BothCalls ==
    {Args(m, TRUE, <<"openai">>, <<"gpt-4o">>, TRUE, st, NoFields, TRUE) :
        m \in {<<"sk-long">>, <<"/help">>}, st \in {"", "name"}}

\* a caller that passes any tuple to the wizard
TupleCalls ==
    {Args(m, FALSE, <<>>, <<>>, TRUE, st, c, TRUE) :
        m \in {<<"y">>, <<"b">>, <<"{blank}">>}, st \in Steps, c \in Tuples}

SendMessageCall(a, max) ==
    /\ turns < max
    /\ \E r \in {sendMessage(Svc, env, a)} :
          /\ SetSvc(r.S)
          /\ Observe(a, r)
          /\ UNCHANGED appVars

\* the outcome of a registry call, written back
Registry(a, r, diskOk) ==
    LET S1 == [Svc EXCEPT !.mcpCfg.mcpServers = r.servers]
    IN  /\ turns < MaxCalls
        /\ SetSvc(IF r.saved THEN saveConfig(S1, S1.mcpCfg, diskOk) ELSE Svc)
        /\ call' = a
        /\ route' = "none"
        /\ result' = Result(IF r.success THEN "success" ELSE "error", r.data)
        /\ dispatched' = NoDispatch
        /\ reinit' = FALSE
        /\ fed' = <<>>
        /\ turns' = turns + 1
        /\ UNCHANGED <<appVars, before>>

Names == {<<>>, <<"a">>, <<"A">>}
Configs == {SpecA, [command |-> <<"npx">>, args |-> <<<<"-y">>>>, env |-> NoFields]}

AddServerCall(name, config, diskOk) ==
    Registry([op |-> "addServer", name |-> name, config |-> config,
              diskOk |-> diskOk],
             addServer(mcpCfg.mcpServers, name, config), diskOk)

AddServerFromJSONCall(jsonConfig, diskOk) ==
    Registry([op |-> "addServerFromJSON", jsonConfig |-> jsonConfig,
              diskOk |-> diskOk],
             addServerFromJSON(mcpCfg.mcpServers, jsonConfig), diskOk)

\* the outcome of a call of LLMService, written back
Service(c, kind, data, S) ==
    /\ turns < MaxOps
    /\ SetSvc(S)
    /\ call' = c
    /\ route' = "none"
    /\ result' = Result(kind, data)
    /\ dispatched' = NoDispatch
    /\ reinit' = FALSE
    /\ fed' = <<>>
    /\ turns' = turns + 1
    /\ UNCHANGED <<appVars, before>>

\* a CommandResult of LLMService, written back
Handled(c, out) == Service(c, out.result.type, out.result.data, out.S)

ProviderNames == {<<"openai">>, <<"anthropic">>, <<"acme">>}
ModelNames == {<<"gpt-4o-mini">>, <<"gpt-9">>}
Secrets == {<<"sk-long">>, <<"sk-ant-long">>, <<"sk-short">>, <<>>}
Temperatures == {0, 5, MaxTemperature, MaxTemperature + 1, -1}
TokenCounts == {0, 1}

\* the arguments of setModel and of setApiKey, with the outcome of the disk write
ModelCalls ==
    {[provider |-> pr, model |-> m, diskOk |-> TRUE] :
        pr \in ProviderNames, m \in ModelNames}
    \cup {[provider |-> <<"openai">>, model |-> <<"gpt-4o-mini">>, diskOk |-> FALSE]}

KeyCalls ==
    {[provider |-> pr, apiKey |-> k, shouldAutoSelect |-> b, diskOk |-> TRUE] :
        pr \in ProviderNames, k \in Secrets, b \in BOOLEAN}
    \cup {[provider |-> <<"openai">>, apiKey |-> <<"sk-long">>,
           shouldAutoSelect |-> b, diskOk |-> FALSE] : b \in BOOLEAN}

\* the arguments of /config
ConfigArgs ==
    {<<<<"temp">>, <<"0">>>>, <<<<"temperature">>, <<"2.1">>>>,
     <<<<"temp">>, <<"abc">>>>, <<<<"tokens">>, <<"0.5">>>>,
     <<<<"max-tokens">>, <<"100">>>>, <<<<"top_p">>, <<"0">>>>, <<<<"temp">>>>}

SetModelCall(provider, model, diskOk) ==
    \E r \in {setModel(Svc, env, provider, model, diskOk)} :
        Service([op |-> "setModel", provider |-> provider, model |-> model,
                 diskOk |-> diskOk],
                IF r.success THEN "success" ELSE "error",
                [requiresApiKey |-> r.requiresApiKey, envVar |-> r.envVar], r.S)

HandleModelCommandCall(args, diskOk) ==
    \E out \in {handleModelCommand(Svc, env, args, diskOk)} :
        Handled([op |-> "handleModelCommand", args |-> args, diskOk |-> diskOk],
                out)

SetApiKeyCall(provider, apiKey, shouldAutoSelect, diskOk) ==
    \E r \in {setApiKey(Svc, provider, apiKey, shouldAutoSelect, diskOk)} :
        Service([op |-> "setApiKey", provider |-> provider, apiKey |-> apiKey,
                 shouldAutoSelect |-> shouldAutoSelect, diskOk |-> diskOk],
                IF r.success THEN "success" ELSE "error",
                [autoSelected |-> r.autoSelected], r.S)

SetTemperatureCall(temperature) ==
    \E r \in {setTemperature(Svc, temperature)} :
        Service([op |-> "setTemperature", value |-> temperature],
                IF r.success THEN "success" ELSE "error", NoFields, r.S)

SetMaxTokensCall(maxTokens) ==
    \E r \in {setMaxTokens(Svc, maxTokens)} :
        Service([op |-> "setMaxTokens", value |-> maxTokens],
                IF r.success THEN "success" ELSE "error", NoFields, r.S)

HandleConfigCommandCall(args) ==
    \E out \in {handleConfigCommand(Svc, args)} :
        Handled([op |-> "handleConfigCommand", args |-> args], out)

ClearApiKeysCall(diskOk) ==
    \E S \in {clearApiKeys(Svc, diskOk)} :
        Service([op |-> "clearApiKeys", diskOk |-> diskOk], "none", NoFields, S)

(***************************************************************************)
(* Start-up.  Each service loads its own copy of the stored configuration; *)
(* the LLM service picks its default provider; an agent is built if an LLM *)
(* can be created.                                                         *)
(***************************************************************************)
StoredKey == <<"sk-long">>
StoredModel == LLMConfig(<<"openai">>, <<"gpt-4o">>, DefaultTemperature, NoFields)

StoredConfigs ==
    {EmptyConfig,
     [apiKeys |-> ("OPENAI_API_KEY" :> StoredKey), lastModel |-> StoredModel,
      mcpServers |-> (<<"a">> :> SpecA)]}

Environments == {NoFields, ("ANTHROPIC_API_KEY" :> <<"sk-ant-long">>)}

Quiet ==
    /\ isWaitingForApiKey = FALSE
    /\ pendingProvider = <<>>
    /\ pendingModel = <<>>
    /\ isWaitingForServerConfig = FALSE
    /\ serverConfigStep = ""
    /\ currentServerConfig = NoFields
    /\ call = [op |-> "none"]
    /\ route = "none"
    /\ result = NoResult
    /\ dispatched = NoDispatch
    /\ reinit = FALSE
    /\ fed = <<>>
    /\ turns = 0

\* the file system is not followed
Unfollowed == disk = [dir |-> TRUE, file |-> Absent]

\* the services as constructed from the stored configuration
Loaded(stored, session) ==
    [file |-> stored, llmCfg |-> stored, mcpCfg |-> stored,
     sessionApiKeys |-> session, currentLLMConfig |-> NoConfig, agent |-> NoAgent,
     aliased |-> FALSE, inflight |-> <<>>,
     client |-> [servers |-> {}, sessions |-> {}],
     initialization |-> [isInitialized |-> FALSE, started |-> 0]]

WithDefault(S, e) ==
    initializeAgent([S EXCEPT !.currentLLMConfig = initializeDefaultProvider(S, e)], e)

Started(stored, session, e) ==
    \E S \in {WithDefault(Loaded(stored, session), e)} :
        /\ file = S.file
        /\ llmCfg = S.llmCfg
        /\ mcpCfg = S.mcpCfg
        /\ sessionApiKeys = S.sessionApiKeys
        /\ currentLLMConfig = S.currentLLMConfig
        /\ agent = S.agent
        /\ aliased = S.aliased
        /\ inflight = S.inflight
        /\ client = S.client
        /\ initialization = S.initialization
        /\ env = e
        /\ before = [servers |-> stored.mcpServers, file |-> stored]

Init ==
    /\ \E stored \in StoredConfigs, e \in Environments : Started(stored, NoFields, e)
    /\ Unfollowed
    /\ Quiet

\* the terminal session
Next == \E userInput \in Typed, diskOk \in BOOLEAN : HandleSubmit(userInput, diskOk)

Spec == Init /\ [][Next]_vars

\* sendMessage called directly
NextAPI ==
    \/ \E a \in PlainCalls : SendMessageCall(a, MaxSends)
    \/ \E a \in CredentialCalls : SendMessageCall(a, MaxSends)
    \/ \E a \in FlowCalls : SendMessageCall(a, MaxSends)
    \/ \E a \in BothCalls : SendMessageCall(a, MaxSends)

SpecAPI == Init /\ [][NextAPI]_vars

\* the server registry called directly, and through wizard turns
NextRegistry ==
    \/ \E name \in Names, config \in Configs, diskOk \in BOOLEAN :
          AddServerCall(name, config, diskOk)
    \/ \E jsonConfig \in JsonLines, diskOk \in BOOLEAN :
          AddServerFromJSONCall(jsonConfig, diskOk)
    \/ \E a \in TupleCalls : SendMessageCall(a, MaxCalls)

SpecRegistry == Init /\ [][NextRegistry]_vars

(***************************************************************************)
(* Credential lookup as a function of its three sources                    *)
(***************************************************************************)
KeyVars == {"OPENAI_API_KEY", "ANTHROPIC_API_KEY"}

\* a source holds nothing, the empty string, or a secret of its own
Sources == [KeyVars -> {"absent", "empty", "secret"}]

Source(f, secret) ==
    [v \in {w \in KeyVars : f[w] # "absent"} |->
        IF f[v] = "empty" THEN <<>> ELSE <<secret, v>>]

InitKey ==
    /\ \E s \in Sources, p \in Sources, e \in Sources :
          Started([EmptyConfig EXCEPT !.apiKeys = Source(p, "p")],
                  Source(s, "s"), Source(e, "e"))
    /\ Unfollowed
    /\ Quiet

GetApiKeyCall(envVar) ==
    /\ turns < MaxTurns
    /\ call' = [op |-> "getApiKey", envVar |-> envVar]
    /\ result' = Result("key", [key |-> getApiKey(Svc, env, envVar)])
    /\ turns' = turns + 1
    /\ UNCHANGED <<svcVars, appVars, route, dispatched, reinit, fed, before>>

GetApiKeyStatusCall(provider) ==
    /\ turns < MaxTurns
    /\ call' = [op |-> "getApiKeyStatus", provider |-> provider]
    /\ result' = Result("status", [source |-> getApiKeyStatus(Svc, env, provider)])
    /\ turns' = turns + 1
    /\ UNCHANGED <<svcVars, appVars, route, dispatched, reinit, fed, before>>

NextKey ==
    \/ \E envVar \in KeyVars : GetApiKeyCall(envVar)
    \/ \E provider \in {<<"openai">>, <<"anthropic">>} : GetApiKeyStatusCall(provider)

SpecKey == InitKey /\ [][NextKey]_vars

(***************************************************************************)
(* LLMService called directly                                              *)
(***************************************************************************)
NextLLM ==
    \/ \E c \in ModelCalls : SetModelCall(c.provider, c.model, c.diskOk)
    \/ \E provider \in ProviderNames, model \in ModelNames :
          HandleModelCommandCall(<<provider, model>>, TRUE)
    \/ \E c \in KeyCalls :
          SetApiKeyCall(c.provider, c.apiKey, c.shouldAutoSelect, c.diskOk)
    \/ \E temperature \in Temperatures : SetTemperatureCall(temperature)
    \/ \E maxTokens \in TokenCounts : SetMaxTokensCall(maxTokens)
    \/ \E args \in ConfigArgs : HandleConfigCommandCall(args)
    \/ \E diskOk \in BOOLEAN : ClearApiKeysCall(diskOk)

SpecLLM == Init /\ [][NextLLM]_vars

(***************************************************************************)
(* Clearing the credentials, from every combination of the three sources   *)
(* of the openai key                                                       *)
(***************************************************************************)
InitClear ==
    /\ \E s \in Sources, p \in Sources, e \in Sources :
          /\ s["ANTHROPIC_API_KEY"] = "absent"
          /\ p["ANTHROPIC_API_KEY"] = "absent"
          /\ e["ANTHROPIC_API_KEY"] = "absent"
          /\ Started([EmptyConfig EXCEPT !.apiKeys = Source(p, "p")],
                     Source(s, "s"), Source(e, "e"))
    /\ Unfollowed
    /\ Quiet

NextClear ==
    \/ \E diskOk \in BOOLEAN : ClearApiKeysCall(diskOk)
    \/ \E c \in ModelCalls : SetModelCall(c.provider, c.model, c.diskOk)
    \/ \E envVar \in KeyVars : GetApiKeyCall(envVar)

SpecClear == InitClear /\ [][NextClear]_vars

(***************************************************************************)
(* The process ends and a new one starts: the services are constructed     *)
(* again from the file, with no session keys, no agent and no prompt open  *)
(***************************************************************************)
Construct ==
    /\ turns < MaxOps
    /\ \E S \in {WithDefault(Loaded(file, NoFields), env)} : SetSvc(S)
    /\ isWaitingForApiKey' = FALSE
    /\ pendingProvider' = <<>>
    /\ pendingModel' = <<>>
    /\ isWaitingForServerConfig' = FALSE
    /\ serverConfigStep' = ""
    /\ currentServerConfig' = NoFields
    /\ call' = [op |-> "construct"]
    /\ route' = "none"
    /\ result' = NoResult
    /\ dispatched' = NoDispatch
    /\ reinit' = FALSE
    /\ fed' = <<>>
    /\ turns' = turns + 1
    /\ before' = [servers |-> file.mcpServers, file |-> file]

\* the operations that reach an active model, every write of the file
\* succeeding, and restarts
NextSurvive ==
    \/ \E c \in {m \in ModelCalls : m.diskOk} :
          SetModelCall(c.provider, c.model, c.diskOk)
    \/ \E c \in {k \in KeyCalls : k.diskOk} :
          SetApiKeyCall(c.provider, c.apiKey, c.shouldAutoSelect, c.diskOk)
    \/ \E temperature \in Temperatures : SetTemperatureCall(temperature)
    \/ \E maxTokens \in TokenCounts : SetMaxTokensCall(maxTokens)
    \/ Construct

SpecSurvive == Init /\ [][NextSurvive]_vars

\* the terminal session, with a provider that does not exist among the lines,
\* and restarts
RunTyped ==
    IF isWaitingForServerConfig \/ isWaitingForApiKey THEN Typed
    ELSE Typed \cup {<<"/setkey", " ", "acme", " ", "sk-long">>,
                     <<"/model", " ", "anthropic", " ", "claude-3-5-sonnet-20241022">>}

NextRun ==
    \/ \E userInput \in RunTyped, diskOk \in BOOLEAN : HandleSubmit(userInput, diskOk)
    \/ Construct

SpecRun == Init /\ [][NextRun]_vars

(***************************************************************************)
(* /server connect and /server disconnect.  The client is [servers,        *)
(* sessions]: the names in its configuration and the names with an active  *)
(* session.  A new MCPClient has no session; agent.initialize() opens the  *)
(* sessions of the client's servers, and may fail having opened only       *)
(* `opened` of them.  init is [ok, opened].                                *)
(***************************************************************************)
NewClient(servers) == [servers |-> servers, sessions |-> {}]

\* new MCPAgent({llm: createLLM(), client}) and agent.initialize() on S.client
Rebuilt(S, e, init) ==
    IF ~createLLMSucceeds(S, e) THEN [raised |-> TRUE, S |-> S]
    ELSE IF init.ok
    THEN [raised |-> FALSE, S |-> [S EXCEPT !.client.sessions = S.client.servers]]
    ELSE [raised |-> TRUE,
          S |-> [S EXCEPT !.client.sessions = init.opened \cap S.client.servers]]

isServerConnected(S, serverName) == serverName \in S.client.sessions

\* AgentService.connectServer(serverName, serverConfig)
connectServer(S, e, serverName, init) ==
    IF S.agent = NoAgent THEN [raised |-> TRUE, S |-> S]
    ELSE IF isServerConnected(S, serverName) THEN [raised |-> TRUE, S |-> S]
    ELSE Rebuilt([S EXCEPT !.client = NewClient(S.client.servers \cup {serverName})],
                 e, init)

\* AgentService.disconnectServer(serverName)
disconnectServer(S, e, serverName, init) ==
    IF S.agent = NoAgent THEN [raised |-> TRUE, S |-> S]
    ELSE IF ~isServerConnected(S, serverName) THEN [raised |-> TRUE, S |-> S]
    ELSE Rebuilt([S EXCEPT !.client = NewClient(S.client.servers \ {serverName})],
                 e, init)

\* CLIService.handleServerConnectCommand(args)
handleServerConnectCommand(S, e, args, init) ==
    IF Len(args) = 0 THEN Out(Result("error", NoFields), S)
    ELSE IF args[1] = <<>> THEN Out(Result("error", NoFields), S)
    ELSE IF args[1] \notin DOMAIN S.mcpCfg.mcpServers
    THEN Out(Result("error", NoFields), S)
    ELSE IF isServerConnected(S, args[1]) THEN Out(Result("info", NoFields), S)
    ELSE LET r == connectServer(S, e, args[1], init)
         IN  IF r.raised THEN Out(Result("error", NoFields), r.S)
             ELSE Out(Result("success", [reinitializeAgent |-> TRUE]), r.S)

\* CLIService.handleServerDisconnectCommand(args); its initializeAgent() builds
\* an agent on a client of its own and leaves this client as it is
handleServerDisconnectCommand(S, e, args, init) ==
    IF Len(args) = 0
    THEN Out(Result(IF S.client.sessions = {} THEN "info" ELSE "error", NoFields), S)
    ELSE IF args[1] = <<>> THEN Out(Result("error", NoFields), S)
    ELSE LET r == disconnectServer(S, e, args[1], init)
         IN  IF r.raised THEN Out(Result("error", NoFields), r.S)
             ELSE Out(Result("server_action",
                             [reinitializeAgent |-> TRUE, serverName |-> args[1],
                              action |-> "disconnect"]), r.S)

ServerNames == {<<"a">>, <<"A">>, <<"zz">>}
Inits == {[ok |-> TRUE, opened |-> {}]}
             \cup {[ok |-> FALSE, opened |-> o] : o \in {{}, {<<"a">>}}}

HandleServerConnectCall(args, init) ==
    \E out \in {handleServerConnectCommand(Svc, env, args, init)} :
        Handled([op |-> "handleServerConnectCommand", args |-> args, init |-> init],
                out)

HandleServerDisconnectCall(args, init) ==
    \E out \in {handleServerDisconnectCommand(Svc, env, args, init)} :
        Handled([op |-> "handleServerDisconnectCommand", args |-> args,
                 init |-> init], out)

NextConnect ==
    \/ \E name \in ServerNames, init \in Inits : HandleServerConnectCall(<<name>>, init)
    \/ \E name \in ServerNames, init \in Inits :
          HandleServerDisconnectCall(<<name>>, init)
    \/ AddServerCall(<<"A">>, SpecA, TRUE)
    \/ ClearApiKeysCall(TRUE)

SpecConnect == Init /\ [][NextConnect]_vars

(***************************************************************************)
(* MCPService.reinitializeWithNewServers().  fault is the step that throws: *)
(* the creation of the client, of the model handle, the construction of    *)
(* the agent or agent.initialize().                                         *)
(***************************************************************************)
Faults == {"none", "client", "llm", "agent", "initialize"}

\* an agent whose initialize() has not completed
Uninitialized(S) == [llm |-> S.currentLLMConfig, initialized |-> FALSE]

\* MCPService.initializeAgent() for re-initialization: this.agent is assigned
\* when the agent is constructed, before agent.initialize() is awaited
initializeAgentAgain(S, e, fault) ==
    IF fault = "llm" \/ ~createLLMSucceeds(S, e) THEN [raised |-> TRUE, S |-> S]
    ELSE IF fault = "agent" THEN [raised |-> TRUE, S |-> S]
    ELSE IF fault = "initialize"
    THEN [raised |-> TRUE, S |-> [S EXCEPT !.agent = Uninitialized(S)]]
    ELSE [raised |-> FALSE, S |-> [S EXCEPT !.agent = [llm |-> S.currentLLMConfig]]]

\* reinitializeWithNewServers(): failed tells whether a step threw, raised
\* whether the exception left the method
reinitializeWithNewServers(S, e, fault) ==
    LET servers == {<<"filesystem">>} \cup DOMAIN S.mcpCfg.mcpServers
        S1 == [S EXCEPT !.client = NewClient(servers)]
    IN  IF fault = "client" THEN [failed |-> TRUE, raised |-> FALSE, S |-> S]
        ELSE IF Len(getAvailableProviders(S1, e)) > 0 /\ S1.currentLLMConfig # NoConfig
        THEN LET r == initializeAgentAgain(S1, e, fault)
             IN  [failed |-> r.raised, raised |-> FALSE, S |-> r.S]
        ELSE [failed |-> FALSE, raised |-> FALSE, S |-> S1]

ReinitializeCall(fault) ==
    /\ turns < MaxOps
    /\ \E r \in {reinitializeWithNewServers(Svc, env, fault)} :
          /\ SetSvc(r.S)
          /\ call' = [op |-> "reinitializeWithNewServers", fault |-> fault,
                      failed |-> r.failed, raised |-> r.raised]
    /\ route' = "none"
    /\ result' = NoResult
    /\ dispatched' = NoDispatch
    /\ reinit' = TRUE
    /\ fed' = <<>>
    /\ turns' = turns + 1
    /\ UNCHANGED <<appVars, before>>

NextReinitialize ==
    \/ \E fault \in Faults : ReinitializeCall(fault)
    \/ \E c \in {k \in KeyCalls : k.diskOk /\ k.shouldAutoSelect} :
          SetApiKeyCall(c.provider, c.apiKey, c.shouldAutoSelect, c.diskOk)
    \/ AddServerCall(<<"A">>, SpecA, TRUE)

SpecReinitialize == Init /\ [][NextReinitialize]_vars

\* lines that set keys and ask for the status
StatusLines ==
    {<<"/status">>, <<"/setkey", " ", "openai", " ", "sk-long">>,
     <<"/setkey", " ", "OpenAI", " ", "sk-ant-long">>,
     <<"/setkey", " ", "openai", " ", "sk-short">>,
     <<"/setkey", " ", "anthropic", " ", "sk-ant-long">>,
     <<"/model", " ", "openai", " ", "gpt-4o">>, <<"/clearkeys">>}

StatusTyped ==
    IF isWaitingForServerConfig \/ isWaitingForApiKey THEN Typed ELSE StatusLines

NextStatus ==
    \E userInput \in StatusTyped, diskOk \in BOOLEAN : HandleSubmit(userInput, diskOk)

SpecStatus == Init /\ [][NextStatus]_vars

\* {step, config} tuples a caller saved from the wizard's prompts
SavedTuples ==
    {[step |-> "command", config |-> [name |-> <<"a">>]],
     [step |-> "env",
      config |-> [name |-> <<"a">>, command |-> <<"npx">>, args |-> <<>>]],
     [step |-> "confirm",
      config |-> [name |-> <<"a">>, command |-> <<"npx">>, args |-> <<>>,
                  env |-> NoFields]]}

\* a caller that resumes the wizard from a saved tuple
SavedCalls ==
    {Args(m, FALSE, <<>>, <<>>, TRUE, t.step, t.config, TRUE) :
        m \in CmdLines \cup EnvInputs \cup {<<"y">>, <<"n">>}, t \in SavedTuples}

\* wizard turns of a flow, of a resumed flow, the registry written meanwhile,
\* and restarts
NextResume ==
    \/ \E name \in {<<"a">>, <<"b">>}, diskOk \in BOOLEAN :
          AddServerCall(name, SpecA, diskOk)
    \/ \E a \in FlowCalls : SendMessageCall(a, MaxCalls)
    \/ \E a \in SavedCalls : SendMessageCall(a, MaxCalls)
    \/ Construct

SpecResume == Init /\ [][NextResume]_vars

\* the operations that persist, every write of the file succeeding, and
\* restarts
NextPersist ==
    \/ \E c \in {k \in KeyCalls : k.diskOk /\ k.shouldAutoSelect} :
          SetApiKeyCall(c.provider, c.apiKey, c.shouldAutoSelect, c.diskOk)
    \/ \E c \in {m \in ModelCalls : m.diskOk} :
          SetModelCall(c.provider, c.model, c.diskOk)
    \/ ClearApiKeysCall(TRUE)
    \/ \E name \in Names, config \in Configs : AddServerCall(name, config, TRUE)
    \/ \E jsonConfig \in JsonLines : AddServerFromJSONCall(jsonConfig, TRUE)
    \/ \E a \in SavedCalls : SendMessageCall(a, MaxCalls)
    \/ Construct

SpecPersist == Init /\ [][NextPersist]_vars

NextRestart ==
    \/ \E c \in ModelCalls : SetModelCall(c.provider, c.model, c.diskOk)
    \/ \E c \in KeyCalls :
          SetApiKeyCall(c.provider, c.apiKey, c.shouldAutoSelect, c.diskOk)
    \/ \E temperature \in Temperatures : SetTemperatureCall(temperature)
    \/ \E maxTokens \in TokenCounts : SetMaxTokensCall(maxTokens)
    \/ \E diskOk \in BOOLEAN : ClearApiKeysCall(diskOk)
    \/ Construct

SpecRestart == Init /\ [][NextRestart]_vars

(***************************************************************************)
(* Changes whose write may fail, and the reads that follow them            *)
(***************************************************************************)
Read(c, data) ==
    /\ turns < MaxOps
    /\ call' = c
    /\ result' = Result("read", data)
    /\ turns' = turns + 1
    /\ UNCHANGED <<svcVars, appVars, route, dispatched, reinit, fed, before>>

GetAvailableProvidersCall ==
    Read([op |-> "getAvailableProviders"],
         [providers |-> getAvailableProviders(Svc, env)])

GetConfiguredServersCall ==
    Read([op |-> "getConfiguredServers"], [servers |-> getConfiguredServers(Svc)])

NextBestEffort ==
    \/ \E c \in KeyCalls :
          SetApiKeyCall(c.provider, c.apiKey, c.shouldAutoSelect, c.diskOk)
    \/ \E name \in Names, config \in Configs, diskOk \in BOOLEAN :
          AddServerCall(name, config, diskOk)
    \/ \E envVar \in KeyVars : GetApiKeyCall(envVar)
    \/ GetAvailableProvidersCall
    \/ GetConfiguredServersCall

SpecBestEffort == Init /\ [][NextBestEffort]_vars

(***************************************************************************)
(* The terminal session with its awaits.  handleSubmit runs without        *)
(* interruption up to an await on input or output: the forwarded agent     *)
(* call, or the building of a new agent.  The prompt stays open meanwhile, *)
(* and the rest of handleSubmit runs when the awaited call returns.        *)
(***************************************************************************)
\* the wait, were every line to wait for input or output
AwaitsAlways(r) == TRUE

\* sendMessage has to wait for the agent or for a new agent
Awaits(r) ==
    \/ r.route = "agent"
    \/ r.reinit
    \/ r.result.type # "none" /\ DataFlag(r.result, "reinitializeAgent")

Without1(q, i) == SubSeq(q, 1, i - 1) \o SubSeq(q, i + 1, Len(q))

\* lines 305-342, 415-432, 495-507: up to the await
Suspended(a, r) ==
    /\ Observe(a, r)
    /\ SetSvc([r.S EXCEPT !.agent = agent,
                          !.inflight = Append(@, [a |-> a, r |-> r])])
    /\ UNCHANGED appVars

SubmitLine(userInput, diskOk) ==
    /\ turns < MaxOps
    /\ Trim(userInput) # <<>>
    /\ \E a \in {SubmitArgs(Trim(userInput), diskOk)} :
          \E r \in {sendMessage(Svc, env, a)} :
              IF Awaits(r) THEN Suspended(a, r) ELSE Submitted(a, r)

\* the rest of handleSubmit for the i-th suspended line, with the flags its
\* closure holds
Resume(i) ==
    LET a == inflight[i].a
        r == inflight[i].r
        cr == r.result
        hasResult == cr.type # "none"
        new == r.reinit \/ (hasResult /\ DataFlag(cr, "reinitializeAgent"))
    IN  /\ SetSvc([(IF new THEN initializeAgent(Svc, env) ELSE Svc)
                      EXCEPT !.inflight = Without1(inflight, i)])
        /\ call' = [op |-> "resume", message |-> a.message]
        /\ UNCHANGED <<route, result, dispatched, reinit, fed, before, turns>>
        /\ IF a.isServerConfigInput
           THEN IF ~hasResult THEN UNCHANGED appVars
                ELSE IF IsPrompt(cr)
                THEN /\ serverConfigStep' = cr.data.step
                     /\ currentServerConfig' = cr.data.config
                     /\ UNCHANGED <<isWaitingForServerConfig, isWaitingForApiKey,
                                    pendingProvider, pendingModel>>
                ELSE /\ ClearServerConfig
                     /\ UNCHANGED <<isWaitingForApiKey, pendingProvider,
                                    pendingModel>>
           ELSE IF a.isApiKeyInput
           THEN /\ IF hasResult THEN ClearApiKey
                   ELSE UNCHANGED <<isWaitingForApiKey, pendingProvider,
                                    pendingModel>>
                /\ UNCHANGED <<isWaitingForServerConfig, serverConfigStep,
                               currentServerConfig>>
           ELSE IF hasResult /\ cr.type = "prompt_key"
           THEN /\ isWaitingForApiKey' = TRUE
                /\ pendingProvider' = cr.data.provider
                /\ pendingModel' = cr.data.model
                /\ UNCHANGED <<isWaitingForServerConfig, serverConfigStep,
                               currentServerConfig>>
           ELSE IF hasResult /\ IsPrompt(cr)
           THEN /\ isWaitingForServerConfig' = TRUE
                /\ serverConfigStep' = cr.data.step
                /\ currentServerConfig' = ConfigOf(cr)
                /\ UNCHANGED <<isWaitingForApiKey, pendingProvider, pendingModel>>
           ELSE UNCHANGED appVars

NextSession ==
    \/ \E userInput \in Typed, diskOk \in BOOLEAN : SubmitLine(userInput, diskOk)
    \/ \E i \in DOMAIN inflight : Resume(i)

SpecSession == Init /\ [][NextSession]_vars

(***************************************************************************)
(* CLIService.initialize().  A call that finds isInitialized false starts  *)
(* initializeAgent() and waits for it; isInitialized is set when the wait  *)
(* is over.                                                                *)
(***************************************************************************)
\* initialize() up to its await
InitializeCall ==
    /\ turns < MaxOps
    /\ IF initialization.isInitialized
       THEN SetSvc(Svc)
       ELSE SetSvc([Svc EXCEPT !.initialization.started = @ + 1,
                               !.inflight = Append(@, [op |-> "initialize"])])
    /\ call' = [op |-> "initialize"]
    /\ route' = "none"
    /\ result' = NoResult
    /\ dispatched' = NoDispatch
    /\ reinit' = ~initialization.isInitialized
    /\ fed' = <<>>
    /\ turns' = turns + 1
    /\ UNCHANGED <<appVars, before>>

\* initialize() after its await: initializeAgent() has returned
InitializeReturn(i) ==
    /\ inflight[i].op = "initialize"
    /\ SetSvc([initializeAgent(Svc, env)
                  EXCEPT !.initialization.isInitialized = TRUE,
                         !.inflight = Without1(inflight, i)])
    /\ call' = [op |-> "initialized"]
    /\ UNCHANGED <<appVars, route, result, dispatched, reinit, fed, before, turns>>

NextInitialize ==
    \/ InitializeCall
    \/ \E i \in DOMAIN inflight : InitializeReturn(i)
    \/ \E c \in {k \in KeyCalls : k.diskOk /\ k.shouldAutoSelect} :
          SetApiKeyCall(c.provider, c.apiKey, c.shouldAutoSelect, c.diskOk)

SpecInitialize == Init /\ [][NextInitialize]_vars


(***************************************************************************)
(* Suggestions for a line that is being typed                              *)
(***************************************************************************)
PartialLines ==
    {<<"/serv">>, <<"/model", " ">>, <<"/model", " ", "op">>,
     <<"/model", " ", "openai", " ", "gpt-9">>, <<" ", "/model">>,
     <<"/server", " ">>, <<"/server", " ", "co">>, <<"/server", " ", "connect">>,
     <<"/server", " ", "connect", " ">>, <<"/server", " ", "connect", " ", "a">>,
     <<"/server", " ", " ", "connect", " ">>, <<"/server", " ", "connect", " ", " ", "a">>,
     <<"/server", " ", "disconnect", " ">>, <<"/server", " ", "add", " ">>,
     <<"/help", " ">>, <<"/foo", " ", "bar">>}

\* the servers AgentService holds a session of are among the configured ones
GetSuggestionsCall(text, connected) ==
    /\ connected \subseteq DOMAIN mcpCfg.mcpServers
    /\ \E r \in {getSuggestions(Svc, connected, text)} :
          Read([op |-> "getSuggestions", text |-> text, connected |-> connected],
               [suggestions |-> r.suggestions, key |-> r.key, args |-> r.args])

NextSuggest ==
    \/ \E name \in Names, config \in Configs, diskOk \in BOOLEAN :
          AddServerCall(name, config, diskOk)
    \/ \E text \in PartialLines, connected \in {{}, {<<"a">>}} :
          GetSuggestionsCall(text, connected)

SpecSuggest == Init /\ [][NextSuggest]_vars

(***************************************************************************)
(* SecureStorage called directly, on a file system in any condition        *)
(***************************************************************************)
StringValue(v) == [str |-> TRUE, v |-> v]
NumberValue == [str |-> FALSE, v |-> <<>>]

\* what the file may hold before the first call
Files ==
    {Absent, NotJson, Null,
     Obj([apiKeys |-> ("OPENAI_API_KEY" :> StringValue(<<"sk-long">>))]),
     Obj([apiKeys |-> ("OPENAI_API_KEY" :> StringValue(<<"iv1", ":", "zz">>))]),
     Obj([apiKeys |-> ("OPENAI_API_KEY" :> NumberValue)]),
     Obj([mcpServers |-> (<<"a">> :> SpecA)])}

Disks ==
    {[dir |-> FALSE, file |-> Absent]} \cup {[dir |-> TRUE, file |-> f] : f \in Files}

\* the secrets: two keys, the empty string, a text with a colon, and a text
\* that reads as an encrypted one
Texts ==
    {<<"sk-long">>, <<"sk-ant-long">>, <<>>, <<"sk-long", ":", "sk-long">>,
     <<"iv1", ":", "e1", "pad">>}

SavedConfigs ==
    {EmptyConfig,
     [apiKeys |-> ("OPENAI_API_KEY" :> <<"sk-long">>), lastModel |-> StoredModel,
      mcpServers |-> (<<"a">> :> SpecA)]}
    \cup {[EmptyConfig EXCEPT !.apiKeys =
                ("OPENAI_API_KEY" :> t) @@ ("ANTHROPIC_API_KEY" :> <<"sk-ant-long">>)] :
            t \in Texts}

\* which system calls of one call succeed
IOs == [mkdirOk : BOOLEAN, readOk : BOOLEAN, writeOk : BOOLEAN, cryptoOk : BOOLEAN]

InitStore ==
    /\ Started(EmptyConfig, NoFields, NoFields)
    /\ disk \in Disks
    /\ Quiet

Storage(c, r) ==
    /\ turns < MaxOps
    /\ disk' = r.D
    /\ call' = c
    /\ result' = Result(IF r.raised THEN "raised" ELSE "returned",
                        [config |-> r.config])
    /\ turns' = turns + 1
    /\ UNCHANGED <<file, llmCfg, mcpCfg, sessionApiKeys, env, currentLLMConfig,
                   agent, aliased, inflight, client, initialization, appVars, route,
                   dispatched, reinit, fed,
                   before>>

LoadConfigCall(io) ==
    \E r \in {loadConfig(disk, io)} :
        Storage([op |-> "loadConfig", io |-> io, disk |-> disk], r)

SaveConfigCall(config, iv, io) ==
    \E r \in {writeConfig(disk, config, iv, io)} :
        Storage([op |-> "saveConfig", config |-> config, iv |-> iv, io |-> io,
                 disk |-> disk], r)

ClearConfigCall(io) ==
    \E r \in {clearConfig(disk, io)} :
        Storage([op |-> "clearConfig", io |-> io, disk |-> disk], r)

\* the calls that matter to each method
LoadIOs == {io \in IOs : io.writeOk /\ io.cryptoOk}
SaveIOs == {io \in IOs : io.readOk}
ClearIOs == {io \in IOs : io.readOk /\ io.cryptoOk}

NextStore ==
    \/ \E io \in LoadIOs : LoadConfigCall(io)
    \/ \E config \in SavedConfigs, iv \in IVs, io \in SaveIOs :
          SaveConfigCall(config, iv, io)
    \/ \E io \in ClearIOs : ClearConfigCall(io)

SpecStore == InitStore /\ [][NextStore]_vars

(***************************************************************************)
(* Properties                                                              *)
(***************************************************************************)
IsSend == call.op = "sendMessage"

\* awaitingWizard?{step, partialSpec} and awaitingCredential?{provider, model}
AwaitingWizard(c) == c.isServerConfigInput /\ c.serverConfigStep # ""
AwaitingCredential(c) ==
    c.isApiKeyInput /\ c.pendingProvider # <<>> /\ c.pendingModel # <<>>

\* the first character of the line, surrounding whitespace aside, is "/"
HasCommandPrefix(line) ==
    \E i \in DOMAIN line :
        /\ line[i] \in SlashAtoms
        /\ \A j \in 1..(i - 1) : line[j] \in WS

\* C1: every line given to sendMessage takes exactly one route, and the route is
\* the wizard when awaitingWizard is set (whatever the line starts with), else
\* credential capture when awaitingCredential is set, else the command router
\* when the line starts with "/", else the agent or the guidance; the command
\* router is used on the command route only.
C1_OneRouteByPriority ==
    IsSend =>
        /\ IF AwaitingWizard(call) THEN route = "wizard"
           ELSE IF AwaitingCredential(call) THEN route = "credential"
           ELSE IF HasCommandPrefix(call.message) THEN route = "command"
           ELSE route \in {"agent", "guidance"}
        /\ route # "command" => dispatched = NoDispatch
        /\ route \in {"agent", "guidance"} <=> result = NoResult

C1_Witness ==
    /\ IsSend
    /\ AwaitingWizard(call)
    /\ AwaitingCredential(call)
    /\ HasCommandPrefix(call.message)
    /\ route = "wizard"

\* C2: a line that is not a command and comes with no awaiting flag is forwarded
\* to the agent only if an active model configuration exists; when none exists
\* the guidance is returned.
C2_AgentOnlyWithActiveModel ==
    (IsSend /\ ~call.isServerConfigInput /\ ~call.isApiKeyInput
       /\ ~HasCommandPrefix(call.message)) =>
        /\ route = "agent" => currentLLMConfig # NoConfig
        /\ currentLLMConfig = NoConfig => route = "guidance"

\* a source holds a value for the variable
IsSet(source, v) == v \in DOMAIN source /\ source[v] # <<>>

\* the first of the three sources that holds a value, by name
FirstSet(session, persistent, environment, v) ==
    IF IsSet(session, v) THEN "session"
    ELSE IF IsSet(persistent, v) THEN "stored"
    ELSE IF IsSet(environment, v) THEN "env"
    ELSE "none"

\* and its value
FirstValue(session, persistent, environment, v) ==
    IF IsSet(session, v) THEN session[v]
    ELSE IF IsSet(persistent, v) THEN persistent[v]
    ELSE IF IsSet(environment, v) THEN environment[v]
    ELSE <<>>

Without(source, v) == [w \in DOMAIN source \ {v} |-> source[w]]

\* getApiKey(v) is not configured, or is the value k
Resolves(key, k) == IF k = <<>> THEN ~Truthy(key) ELSE Truthy(key) /\ key.v = k

\* C3: the key of a credential variable is the session value if one is set, else
\* the persistent value if one is set, else the environment value, else not
\* configured; the reported source agrees; without the session value the lookup
\* falls through to the persistent value, and without that to the environment.
C3_KeyPrecedence ==
    /\ call.op = "getApiKey" =>
          LET v == call.envVar
              p == llmCfg.apiKeys
          IN  /\ Resolves(result.data.key, FirstValue(sessionApiKeys, p, env, v))
              /\ Resolves(KeyFrom(Without(sessionApiKeys, v), p, env, v),
                          FirstValue(NoFields, p, env, v))
              /\ Resolves(KeyFrom(Without(sessionApiKeys, v), Without(p, v), env, v),
                          FirstValue(NoFields, NoFields, env, v))
    /\ call.op = "getApiKeyStatus" =>
          result.data.source
              = FirstSet(sessionApiKeys, llmCfg.apiKeys, env, envVarMap(call.provider))

C3_Witness ==
    /\ call.op = "getApiKey"
    /\ IsSet(sessionApiKeys, call.envVar)
    /\ IsSet(llmCfg.apiKeys, call.envVar)
    /\ IsSet(env, call.envVar)
    /\ result.data.key = Some(sessionApiKeys[call.envVar])
    /\ sessionApiKeys[call.envVar] # llmCfg.apiKeys[call.envVar]

\* a wizard turn
IsWizardTurn(c, rt) == c.op = "sendMessage" /\ rt = "wizard"

\* the text left when the surrounding whitespace of a line is removed
Stripped(line) ==
    CASE line = <<" ", "a", " ">> -> <<"a">>
      [] line = <<" ", "npx", " ", "-y", " ">> -> <<"npx", " ", "-y">>
      [] OTHER -> line

\* the list an args line stands for
ExpectedArgs(line) ==
    CASE line = <<>> -> <<>>
      [] line = <<"-y", " ", "pkg">> -> << <<"-y">>, <<"pkg">> >>
      [] line = <<"-y", " ", "\n", "pkg">> -> << <<"-y">>, <<"pkg">> >>
      [] OTHER -> <<line>>

\* the map an env line stands for
ExpectedEnv(line) ==
    CASE line = <<"K", "=", "V">> -> (<<"K">> :> <<"V">>)
      [] line = <<"K", "=", "V", "\n", "J", " ", "=", "W", "=", "X">> ->
            (<<"K">> :> <<"V">>) @@ (<<"J">> :> <<"W", "=", "X">>)
      [] OTHER -> NoFields

IsJsonText(line) == \E i \in DOMAIN line : line[i] \in BraceAtoms

\* the spec the five lines of a flow describe
ExpectedSpec(lines) ==
    [command |-> Stripped(lines[2]), args |-> ExpectedArgs(lines[3]),
     env |-> ExpectedEnv(lines[4])]

\* C4: in a flow started at name_or_json and fed one line per turn, an unused
\* non-empty name, a non-empty command, any args line and any env line are each
\* accepted and lead to the next step, and "y" at confirm ends in success with
\* the registry and the file holding, under the name, the supplied command, the
\* args line split on whitespace (none for an empty line) and the env map parsed
\* from the KEY=VALUE lines.
C4_WizardReachesSuccess ==
    [][(IsWizardTurn(call', route') /\ (StartsFlow(call') \/ PassesBack(call'))) =>
        LET step == call'.serverConfigStep
            line == call'.message
            next(st) == /\ IsPrompt(result')
                        /\ result'.data.step = st
        IN  /\ (step = "name_or_json" /\ ~IsJsonText(line) /\ Stripped(line) # <<>>
                  /\ Stripped(line) \notin DOMAIN mcpCfg.mcpServers)
                  => next("command") /\ result'.data.config.name = Stripped(line)
            /\ (step = "command" /\ Stripped(line) # <<>>) => next("args")
            /\ step = "args" => next("env")
            /\ step = "env" => next("confirm")
            /\ (step = "confirm" /\ line \in {<<"y">>, <<"YES">>}) =>
                  /\ result'.type = "success"
                  /\ Len(fed) = 4
                  /\ Stripped(fed[1]) \in DOMAIN mcpCfg'.mcpServers
                  /\ mcpCfg'.mcpServers[Stripped(fed[1])] = ExpectedSpec(fed)
                  /\ file'.mcpServers = mcpCfg'.mcpServers
                  /\ \A n \in DOMAIN mcpCfg.mcpServers :
                        mcpCfg'.mcpServers[n] = mcpCfg.mcpServers[n]
       ]_vars

C4_Witness ==
    /\ IsWizardTurn(call, route)
    /\ Len(fed) = 5
    /\ fed[1] = <<" ", "a", " ">>
    /\ fed[3] = <<"-y", " ", "\n", "pkg">>
    /\ fed[4] = <<"K", "=", "V", "\n", "J", " ", "=", "W", "=", "X">>
    /\ fed[5] = <<"YES">>
    /\ result.type = "success"
    /\ mcpCfg.mcpServers[<<"a">>].env
         = (<<"K">> :> <<"V">>) @@ (<<"J">> :> <<"W", "=", "X">>)

\* C5: "n" or "no" at confirm ends the flow in cancellation and the registry and
\* the file are as they were when the flow started; a wizard turn changes the
\* registry or the file only if it is an accepted "y"/"yes" at confirm or a bulk
\* JSON text at name_or_json.
C5_OnlyConfirmWrites ==
    [][IsWizardTurn(call', route') =>
        LET step == call'.serverConfigStep
            line == call'.message
        IN  /\ (mcpCfg' # mcpCfg \/ file' # file) =>
                  /\ result'.type = "success"
                  /\ \/ step = "confirm" /\ line \in {<<"y">>, <<"YES">>}
                     \/ step = "name_or_json" /\ IsJsonText(line)
            /\ (step = "confirm" /\ line \in {<<"n">>, <<"NO">>}) =>
                  /\ result'.type = "info"
                  /\ UNCHANGED <<mcpCfg, file>>
                  /\ PassesBack(call') =>
                        /\ mcpCfg'.mcpServers = before.servers
                        /\ file' = before.file
       ]_vars

C5_Witness ==
    /\ IsWizardTurn(call, route)
    /\ Len(fed) = 5
    /\ fed[5] \in {<<"n">>, <<"NO">>}
    /\ result.type = "info"
    /\ mcpCfg.mcpServers = before.servers
    /\ file = before.file

\* what the wizard does not accept at a step
IsInvalidAt(step, line, servers) ==
    \/ /\ step = "name_or_json"
       /\ ~IsJsonText(line)
       /\ Stripped(line) = <<>> \/ Stripped(line) \in DOMAIN servers
    \/ step = "command" /\ Stripped(line) = <<>>
    \/ step = "confirm" /\ line \notin {<<"y">>, <<"YES">>, <<"n">>, <<"NO">>}

\* C6: on invalid input (an empty or used name at name_or_json, an empty line at
\* command, a token other than y/yes/n/no at confirm) the wizard answers with an
\* error, the interface keeps awaiting the wizard at the same step with the same
\* partial spec, and so gives the next line to the wizard at that step.
C6_InvalidInputReprompts ==
    [][(isWaitingForServerConfig /\ IsWizardTurn(call', route')
          /\ IsInvalidAt(serverConfigStep, call'.message, mcpCfg.mcpServers)) =>
        /\ result'.type = "error"
        /\ isWaitingForServerConfig'
        /\ serverConfigStep' = serverConfigStep
        /\ currentServerConfig' = currentServerConfig
       ]_vars

\* an entry of a bulk text that names neither a command nor a url
HasNeither(entry) ==
    /\ ~("command" \in DOMAIN entry.obj /\ entry.obj.command # <<>>)
    /\ ~("url" \in DOMAIN entry.obj /\ entry.obj.url # <<>>)

\* C7: addServerFromJSON adds nothing and leaves the registry and the file as
\* they are when the text does not parse, when mcpServers is missing or is not a
\* map, when it has no entry, when a name is already in the registry, or when an
\* entry has neither command nor url; otherwise it adds every entry in one save
\* and returns exactly the supplied names.
C7_BulkAllOrNothing ==
    [][call'.op = "addServerFromJSON" =>
        LET parsed == JSONparse(call'.jsonConfig)
            names == DOMAIN parsed.entries
            old == mcpCfg.mcpServers
            rejected == \/ ~parsed.ok
                        \/ parsed.type # "object"
                        \/ names = {}
                        \/ names \cap DOMAIN old # {}
                        \/ \E n \in names : HasNeither(parsed.entries[n])
        IN  IF rejected
            THEN result'.type = "error" /\ UNCHANGED <<mcpCfg, file>>
            ELSE /\ result'.type = "success"
                 /\ result'.data.serverNames = names
                 /\ DOMAIN mcpCfg'.mcpServers = names \cup DOMAIN old
                 /\ \A n \in names : mcpCfg'.mcpServers[n] = parsed.entries[n].obj
                 /\ \A n \in DOMAIN old : mcpCfg'.mcpServers[n] = old[n]
                 /\ call'.diskOk => file' = mcpCfg'
       ]_vars

\* C8: addServer(name, config) fails and changes nothing when the name is blank
\* or is already a key of the registry, the entry under that key keeping its
\* spec; any other name, one differing from a key in letter case included, is
\* added.
C8_AddRejectsBlankAndDuplicate ==
    [][call'.op = "addServer" =>
        LET name == call'.name
            old == mcpCfg.mcpServers
        IN  IF Stripped(name) = <<>> \/ name \in DOMAIN old
            THEN result'.type = "error" /\ UNCHANGED <<mcpCfg, file>>
            ELSE /\ result'.type = "success"
                 /\ DOMAIN mcpCfg'.mcpServers = {name} \cup DOMAIN old
                 /\ mcpCfg'.mcpServers[name] = call'.config
                 /\ \A n \in DOMAIN old : mcpCfg'.mcpServers[n] = old[n]
       ]_vars

\* C9: every key of the persisted mcpServers map, in memory and in the file, is
\* a non-empty name.
C9_NamesNonEmpty ==
    /\ \A n \in DOMAIN mcpCfg.mcpServers : n # <<>>
    /\ \A n \in DOMAIN file.mcpServers : n # <<>>

\* the tokens of a command line
Words(line) == SelectSeq(line, LAMBDA x : x \notin WS)

\* the tokens of w from position i on
TokensFrom(w, i) == [k \in 1..(Len(w) - i + 1) |-> <<w[k + i - 1]>>]

\* C10: a command line is split on whitespace; with two or more tokens and the
\* key "tok0 tok1" registered, that entry is used with the tokens from index 2;
\* otherwise, with tok0 registered, that entry is used with the tokens from
\* index 1; otherwise the result is an error and no entry is used.  "/server add"
\* uses the "/server add" entry with no arguments.
C10_TwoTokenKeyFirst ==
    (IsSend /\ route = "command") =>
        LET w == Words(call.message)
        IN  /\ IF Len(w) >= 2 /\ <<w[1], " ", w[2]>> \in CommandKeys
               THEN dispatched = [key |-> <<w[1], " ", w[2]>>, args |-> TokensFrom(w, 3)]
               ELSE IF <<w[1]>> \in CommandKeys
               THEN dispatched = [key |-> <<w[1]>>, args |-> TokensFrom(w, 2)]
               ELSE dispatched.key = NoEntry /\ result.type = "error"
            /\ call.message = <<"/server", " ", "add">> =>
                  dispatched = [key |-> <<"/server", " ", "add">>, args |-> <<>>]

C10_Witness ==
    /\ IsSend
    /\ route = "command"
    /\ call.message = <<"/server", " ", "add", " ", "x">>
    /\ dispatched = [key |-> <<"/server", " ", "add">>, args |-> << <<"x">> >>]
    /\ IsPrompt(result)

\* the four providers and their credential variables
KnownProviders == {<<"openai">>, <<"anthropic">>, <<"google">>, <<"mistral">>}

CredentialVariable(provider) ==
    CASE provider = <<"openai">> -> "OPENAI_API_KEY"
      [] provider = <<"anthropic">> -> "ANTHROPIC_API_KEY"
      [] provider = <<"google">> -> "GOOGLE_API_KEY"
      [] provider = <<"mistral">> -> "MISTRAL_API_KEY"

\* the credential of the provider is set at none of the three levels
NoCredential(provider) ==
    LET v == CredentialVariable(provider)
    IN  ~IsSet(sessionApiKeys, v) /\ ~IsSet(llmCfg.apiKeys, v) /\ ~IsSet(env, v)

\* C11: selecting a model of an unknown provider is an error; selecting one of a
\* known provider with no credential at any level is not an error but the
\* credential-required result, which carries exactly the provider, the model and
\* the provider's credential variable; neither changes the active model
\* configuration, the stored configuration or the file.
C11_NoCredentialAsksForKey ==
    [][/\ call'.op = "setModel" =>
            /\ call'.provider \notin KnownProviders =>
                  /\ result'.type = "error"
                  /\ ~result'.data.requiresApiKey
                  /\ UNCHANGED <<currentLLMConfig, llmCfg, file>>
            /\ (call'.provider \in KnownProviders /\ NoCredential(call'.provider)) =>
                  /\ result'.data.requiresApiKey
                  /\ result'.data.envVar = CredentialVariable(call'.provider)
                  /\ UNCHANGED <<currentLLMConfig, llmCfg, file>>
       /\ call'.op = "handleModelCommand" =>
            LET provider == call'.args[1]
                model == call'.args[2]
            IN  /\ provider \notin KnownProviders =>
                      /\ result'.type = "error"
                      /\ UNCHANGED <<currentLLMConfig, llmCfg, file>>
                /\ (provider \in KnownProviders /\ NoCredential(provider)) =>
                      /\ result'.type = "prompt_key"
                      /\ result'.data = [provider |-> provider, model |-> model,
                                         envVar |-> CredentialVariable(provider)]
                      /\ UNCHANGED <<currentLLMConfig, llmCfg, file>>
      ]_vars

C11_Witness ==
    /\ call.op = "handleModelCommand"
    /\ result.type = "prompt_key"
    /\ result.data = [provider |-> <<"anthropic">>, model |-> <<"gpt-9">>,
                      envVar |-> "ANTHROPIC_API_KEY"]
    /\ currentLLMConfig # NoConfig
    /\ currentLLMConfig.provider = <<"openai">>

C13_PromptsSetAwaitingFlags ==
    [][(~isWaitingForApiKey /\ ~isWaitingForServerConfig
          /\ call'.op = "sendMessage") =>
        LET w == Words(call'.message)
        IN  /\ (route' = "command" /\ result'.type = "prompt_key") =>
                  /\ isWaitingForApiKey'
                  /\ pendingProvider' = result'.data.provider
                  /\ pendingModel' = result'.data.model
                  /\ pendingProvider' = <<w[2]>>
                  /\ pendingModel' = <<w[3]>>
                  /\ ~isWaitingForServerConfig'
            /\ (route' = "command" /\ result'.type = "prompt_server_config") =>
                  /\ isWaitingForServerConfig'
                  /\ serverConfigStep' = result'.data.step
                  /\ w = <<"/server", "add">> => serverConfigStep' = "name_or_json"
                  /\ ~isWaitingForApiKey'
            /\ ~(route' = "command"
                   /\ result'.type \in {"prompt_key", "prompt_server_config"}) =>
                  /\ ~isWaitingForApiKey'
                  /\ ~isWaitingForServerConfig'
       ]_vars

C13_Witness ==
    /\ call.op = "sendMessage"
    /\ route = "command"
    /\ result.type = "prompt_key"
    /\ isWaitingForApiKey
    /\ pendingProvider = <<"openai">>
    /\ pendingModel = <<"gpt-4o">>

\* C14: a submitted line that succeeds and changes the stored credentials, the
\* active model configuration or the server registry is followed, within the
\* same turn, by a request for a new agent.
C14_ChangeRequestsNewAgent ==
    [][(call'.op = "sendMessage" /\ result'.type = "success"
          /\ (llmCfg' # llmCfg \/ mcpCfg' # mcpCfg
                \/ currentLLMConfig' # currentLLMConfig)) =>
        (reinit' \/ DataFlag(result', "reinitializeAgent"))
       ]_vars

\* C15: a submitted line whose result is an error, on whichever route, leaves
\* the stored configuration (both services' copies and the file), the session
\* keys and the active model configuration as they were.
C15_ErrorLeavesStateIntact ==
    [][(call'.op = "sendMessage" /\ result'.type = "error") =>
        UNCHANGED <<llmCfg, mcpCfg, file, sessionApiKeys, currentLLMConfig>>
       ]_vars

\* the secrets a provider's shape check lets through: at least 20 characters,
\* and for openai the prefix sk-, for anthropic the prefix ant_ or sk-ant-
WellShaped(provider, secret) ==
    \/ provider = <<"openai">> /\ secret \in {<<"sk-long">>, <<"sk-ant-long">>}
    \/ provider = <<"anthropic">> /\ secret \in {<<"sk-ant-long">>}

\* C16: setApiKey answers an empty secret, and a secret that fails the shape
\* check of a known provider, with an error and leaves the stored keys and the
\* file as they are; an accepted secret of a known provider is afterwards the
\* stored key of the provider's credential variable, the other stored keys are
\* kept, and the configuration is written to the file.
C16_SetApiKeyValidatesThenStores ==
    [][call'.op = "setApiKey" =>
        LET provider == call'.provider
            secret == call'.apiKey
        IN  /\ secret = <<>> =>
                  result'.type = "error" /\ UNCHANGED <<llmCfg, file>>
            /\ provider \in KnownProviders =>
                  IF ~WellShaped(provider, secret)
                  THEN result'.type = "error" /\ UNCHANGED <<llmCfg, file>>
                  ELSE /\ result'.type = "success"
                       /\ llmCfg'.apiKeys[CredentialVariable(provider)] = secret
                       /\ \A v \in DOMAIN llmCfg.apiKeys \ {CredentialVariable(provider)} :
                             llmCfg'.apiKeys[v] = llmCfg.apiKeys[v]
                       /\ call'.diskOk => file' = llmCfg'
                       /\ ~call'.diskOk => file' = file
       ]_vars

C16_Witness ==
    /\ call.op = "setApiKey"
    /\ call.provider = <<"anthropic">>
    /\ call.apiKey = <<"sk-long">>
    /\ result.type = "error"
    /\ "OPENAI_API_KEY" \in DOMAIN llmCfg.apiKeys
    /\ "ANTHROPIC_API_KEY" \notin DOMAIN llmCfg.apiKeys

\* the model a provider is given when none was chosen
DefaultModelOf(provider) ==
    CASE provider = <<"openai">> -> <<"gpt-4o-mini">>
      [] provider = <<"anthropic">> -> <<"claude-3-5-sonnet-20241022">>
      [] provider = <<"google">> -> <<"gemini-1.5-pro">>
      [] provider = <<"mistral">> -> <<"mistral-large-latest">>

\* C17: setApiKey changes the active model configuration only when it succeeds
\* with autoSelect while none is active, and then the configuration is that
\* provider, its default model and temperature 0.7 (7 tenths); when a model is
\* active, a successful setApiKey for any provider leaves it as it is.
C17_AutoSelectOnlyWithoutModel ==
    [][(call'.op = "setApiKey" /\ call'.provider \in KnownProviders) =>
        IF result'.type = "success" /\ call'.shouldAutoSelect
           /\ currentLLMConfig = NoConfig
        THEN currentLLMConfig' = [provider |-> call'.provider,
                                  model |-> DefaultModelOf(call'.provider),
                                  temperature |-> 7]
        ELSE currentLLMConfig' = currentLLMConfig
       ]_vars

C17_Witness ==
    /\ call.op = "setApiKey"
    /\ call.provider = <<"anthropic">>
    /\ call.shouldAutoSelect
    /\ result.type = "success"
    /\ currentLLMConfig # NoConfig
    /\ currentLLMConfig.provider = <<"openai">>

\* C18: a successful setModel makes the active model configuration the given
\* provider and model, with the temperature and the maxTokens that were set
\* before it (any temperature from 0 to 2, any maxTokens from 1), and the stored
\* lastModel, in memory and in the file once written, equals the new
\* configuration.
C18_SetModelKeepsSettings ==
    [][(call'.op = "setModel" /\ result'.type = "success") =>
        /\ currentLLMConfig'.provider = call'.provider
        /\ currentLLMConfig'.model = call'.model
        /\ currentLLMConfig # NoConfig =>
              /\ currentLLMConfig'.temperature = currentLLMConfig.temperature
              /\ Pick(currentLLMConfig', {"maxTokens"})
                    = Pick(currentLLMConfig, {"maxTokens"})
        /\ llmCfg'.lastModel = currentLLMConfig'
        /\ call'.diskOk => file'.lastModel = currentLLMConfig'
       ]_vars

\* a configuration's temperature is from 0 to 2 (0 to 20 tenths) and its
\* maxTokens, if set, is at least 1
InRange(c) ==
    c # NoConfig =>
        /\ c.temperature >= 0
        /\ c.temperature <= 20
        /\ "maxTokens" \in DOMAIN c => c.maxTokens >= 1

\* C19: the active model configuration, when there is one, always has a
\* temperature from 0 to 2 and a maxTokens that is unset or at least 1; and
\* setTemperature and setMaxTokens answer with an error and change nothing when
\* no model is active or the value is out of range.
C19_SettingsStayInRange ==
    /\ [](InRange(currentLLMConfig))
    /\ [][(call'.op = "setTemperature"
             /\ (currentLLMConfig = NoConfig \/ call'.value < 0
                   \/ call'.value > 20)) =>
              /\ result'.type = "error"
              /\ UNCHANGED <<currentLLMConfig, llmCfg, file>>
          ]_vars
    /\ [][(call'.op = "setMaxTokens"
             /\ (currentLLMConfig = NoConfig \/ call'.value < 1)) =>
              /\ result'.type = "error"
              /\ UNCHANGED <<currentLLMConfig, llmCfg, file>>
          ]_vars

C19_Witness ==
    /\ call.op = "setTemperature"
    /\ call.value = 21
    /\ result.type = "error"
    /\ currentLLMConfig # NoConfig
    /\ currentLLMConfig.temperature = 20
    /\ "maxTokens" \in DOMAIN currentLLMConfig

\* C20: after clearApiKeys the session keys and the stored keys are empty, the
\* stored lastModel is absent in memory and, once written, in the file, no
\* model is active, and the key of every credential variable is what the
\* environment holds for it, if anything.
C20_ClearLeavesEnvironmentOnly ==
    call.op = "clearApiKeys" =>
        /\ sessionApiKeys = NoFields
        /\ llmCfg.apiKeys = NoFields
        /\ llmCfg.lastModel = NoFields
        /\ currentLLMConfig = NoConfig
        /\ call.diskOk => file.apiKeys = NoFields /\ file.lastModel = NoFields
        /\ \A v \in KeyVars :
              Resolves(getApiKey(Svc, env, v), FirstValue(NoFields, NoFields, env, v))

C20_Witness ==
    /\ call.op = "clearApiKeys"
    /\ call.diskOk
    /\ IsSet(env, "OPENAI_API_KEY")
    /\ getApiKey(Svc, env, "OPENAI_API_KEY") = Some(env["OPENAI_API_KEY"])
    /\ file.lastModel = NoFields
    /\ turns > 1

\* the providers in the order of the registry
RegistryOrder == << <<"openai">>, <<"anthropic">>, <<"google">>, <<"mistral">> >>

CredentialResolves(provider) ==
    /\ provider \in KnownProviders
    /\ \/ IsSet(sessionApiKeys, CredentialVariable(provider))
       \/ IsSet(llmCfg.apiKeys, CredentialVariable(provider))
       \/ IsSet(env, CredentialVariable(provider))

\* C21: after construction, when the file holds a lastModel whose provider's
\* credential resolves, the active model configuration is that lastModel, field
\* for field; otherwise it is the first provider in registry order whose
\* credential resolves, at its default model; with no credential it is unset.
C21_StartupSelection ==
    call.op = "construct" =>
        IF file.lastModel # NoFields /\ CredentialResolves(file.lastModel.provider)
        THEN currentLLMConfig = file.lastModel
        ELSE IF \E i \in 1..4 : CredentialResolves(RegistryOrder[i])
        THEN \E i \in 1..4 :
                /\ CredentialResolves(RegistryOrder[i])
                /\ \A j \in 1..(i - 1) : ~CredentialResolves(RegistryOrder[j])
                /\ currentLLMConfig # NoConfig
                /\ currentLLMConfig.provider = RegistryOrder[i]
                /\ currentLLMConfig.model = DefaultModelOf(RegistryOrder[i])
        ELSE currentLLMConfig = NoConfig

\* C21 with the stored temperature 0 left aside
C21_StartupSelectionNonZero ==
    (call.op = "construct"
       /\ ~(file.lastModel # NoFields /\ file.lastModel.temperature = 0)) =>
        C21_StartupSelection

\* the file cannot be read as a configuration
Unreadable(D) == D.file.kind \in {"absent", "text", "null"}

\* C22: loadConfig, saveConfig and clearConfig return to their caller whatever
\* the file holds and whichever of their system calls fails, and loadConfig
\* returns the empty configuration when the file is absent, is not JSON or
\* cannot be read.
C22_StorageIsTotal ==
    call.op \in {"loadConfig", "saveConfig", "clearConfig"} =>
        /\ result.type = "returned"
        /\ (call.op = "loadConfig" /\ (Unreadable(call.disk) \/ ~call.io.readOk)) =>
              result.data.config = EmptyConfig

\* C22 where the configuration directory exists or can be made
C22_StorageIsTotalWithDirectory ==
    (call.op \in {"loadConfig", "saveConfig", "clearConfig"}
       /\ (call.disk.dir \/ call.io.mkdirOk)) =>
        C22_StorageIsTotal

\* C24: a text that was encrypted decrypts to itself, whatever the text and
\* the initialisation vector; and a loadConfig that follows a saveConfig whose
\* write went through returns the configuration that was saved: the same
\* apiKeys, lastModel and mcpServers.
C24_RoundTrip ==
    /\ [](\A t \in Texts, iv \in IVs : decrypt(encrypt(t, iv, TRUE)) = t)
    /\ [][(/\ call.op = "saveConfig" /\ result.type = "returned"
            /\ call.io.writeOk /\ call.io.cryptoOk
            /\ call'.op = "loadConfig" /\ call'.io.readOk) =>
              /\ result'.type = "returned"
              /\ result'.data.config = call.config
          ]_vars

C24_Witness ==
    /\ call.op = "loadConfig"
    /\ disk.file.kind = "object"
    /\ "apiKeys" \in DOMAIN disk.file.obj
    /\ DOMAIN disk.file.obj.apiKeys = {"OPENAI_API_KEY", "ANTHROPIC_API_KEY"}
    /\ disk.file.obj.apiKeys["OPENAI_API_KEY"].v = <<"iv2", ":", "e4", "e3", "e6", "e5", "pad">>
    /\ DOMAIN result.data.config.apiKeys = {"OPENAI_API_KEY", "ANTHROPIC_API_KEY"}
    /\ result.data.config.apiKeys["OPENAI_API_KEY"] = <<"iv1", ":", "e1", "pad">>
    /\ result.data.config.apiKeys["ANTHROPIC_API_KEY"] = <<"sk-ant-long">>

RECURSIVE EnvText(_)
EnvText(envMap) ==
    IF DOMAIN envMap = {} THEN <<>>
    ELSE LET k == CHOOSE x \in DOMAIN envMap : TRUE
             rest == [x \in DOMAIN envMap \ {k} |-> envMap[x]]
         IN  k \o <<"=">> \o envMap[k]
               \o (IF DOMAIN rest = {} THEN <<>> ELSE <<"\n">> \o EnvText(rest))

EquivalentLines(name, entry) ==
    << name, entry.command,
       IF "args" \in DOMAIN entry THEN Join(entry.args, " ") ELSE <<>>,
       IF "env" \in DOMAIN entry THEN EnvText(entry.env) ELSE <<>>,
       <<"y">> >>

\* the wizard fed the lines one after the other, each turn with the step and
\* the configuration the turn before returned
RECURSIVE WizardFlow(_, _, _, _)
WizardFlow(servers, lines, step, config) ==
    LET r == handleServerConfigInput(servers, Head(lines), step, config)
    IN  IF IsPrompt(r.result) /\ Tail(lines) # <<>>
        THEN WizardFlow(servers, Tail(lines), r.result.data.step, r.result.data.config)
        ELSE r

\* a JSON text of one server that has a command
SingleServer(jsonConfig) ==
    LET parsed == JSONparse(jsonConfig)
    IN  /\ parsed.ok /\ parsed.type = "object"
        /\ \E n \in DOMAIN parsed.entries :
              /\ DOMAIN parsed.entries = {n}
              /\ parsed.entries[n].kind = "object"
              /\ TruthyField(parsed.entries[n].obj, "command")

NameIn(jsonConfig) == CHOOSE n \in DOMAIN JSONparse(jsonConfig).entries : TRUE
EntryIn(jsonConfig) == JSONparse(jsonConfig).entries[NameIn(jsonConfig)].obj

\* the entry has the three fields the wizard writes, and a name that is not blank
WizardShaped(jsonConfig) ==
    /\ DOMAIN EntryIn(jsonConfig) = {"command", "args", "env"}
    /\ Trim(NameIn(jsonConfig)) # <<>>

\* C25: a bulk add of a JSON text of one server leaves the registry and the
\* file as the wizard would have left them, had it been fed the name, the
\* command, the arguments and the variables of that server and then y.
C25_BulkEqualsWizard ==
    [][(call'.op = "addServerFromJSON" /\ SingleServer(call'.jsonConfig)) =>
          LET wizard == WizardFlow(mcpCfg.mcpServers,
                                   EquivalentLines(NameIn(call'.jsonConfig),
                                                   EntryIn(call'.jsonConfig)),
                                   "name_or_json", NoFields)
          IN  /\ (result'.type = "success") <=> (wizard.result.type = "success")
              /\ mcpCfg'.mcpServers = wizard.servers
              /\ IF call'.diskOk /\ result'.type = "success"
                 THEN file'.mcpServers = wizard.servers
                 ELSE file' = file
      ]_vars

\* C25 for the entries that have the three fields the wizard writes
C25_BulkEqualsWizardWhenShaped ==
    [][(call'.op = "addServerFromJSON" /\ SingleServer(call'.jsonConfig)
          /\ WizardShaped(call'.jsonConfig)) =>
          LET wizard == WizardFlow(mcpCfg.mcpServers,
                                   EquivalentLines(NameIn(call'.jsonConfig),
                                                   EntryIn(call'.jsonConfig)),
                                   "name_or_json", NoFields)
          IN  /\ (result'.type = "success") <=> (wizard.result.type = "success")
              /\ mcpCfg'.mcpServers = wizard.servers
              /\ IF call'.diskOk /\ result'.type = "success"
                 THEN file'.mcpServers = wizard.servers
                 ELSE file' = file
      ]_vars

\* the last token of a line that is being typed, empty after a space, and the
\* line before it
LastToken(text) == IF text[Len(text)] = " " THEN <<>> ELSE <<text[Len(text)]>>
TypedBefore(text) == SubSeq(text, 1, Len(text) - Len(LastToken(text)))

HasSpace(text) == \E i \in DOMAIN text : text[i] = " "

\* C26: every suggestion for a line with a space is the line up to the start
\* of its last token, followed by one word that begins with that token.
C26_SuggestionsKeepTypedText ==
    (call.op = "getSuggestions" /\ HasSpace(call.text)) =>
        \A s \in result.data.suggestions :
            /\ Len(s) >= Len(TypedBefore(call.text))
            /\ SubSeq(s, 1, Len(TypedBefore(call.text))) = TypedBefore(call.text)
            /\ StartsWith(SubSeq(s, Len(TypedBefore(call.text)) + 1, Len(s)),
                          LastToken(call.text))

\* C26 for the lines whose last token is an argument of the command, or empty
C26_SuggestionsKeepTypedTextOfArguments ==
    (call.op = "getSuggestions" /\ HasSpace(call.text) /\ result.data.args = <<>>
       /\ LastToken(call.text) # <<>>)
    \/ C26_SuggestionsKeepTypedText

\* C27: for a line with a space, the suggestions are made from the registry
\* entry and the arguments that handleCommand uses for the same line.
C27_SuggestsAsDispatched ==
    (call.op = "getSuggestions" /\ HasSpace(call.text)) =>
        /\ result.data.key = LookupCommand(call.text).key
        /\ result.data.key # NoEntry => result.data.args = LookupCommand(call.text).args

\* C27 for the lines whose tokens are one space apart
C27_SuggestsAsDispatchedSingleSpaced ==
    (call.op = "getSuggestions" /\ HasSpace(call.text)
       /\ \E i \in 1..(Len(call.text) - 1) : call.text[i] = " " /\ call.text[i + 1] = " ")
    \/ C27_SuggestsAsDispatched

\* C28: a line starts being processed only when no earlier line is suspended,
\* so the stored configuration, the session keys, the awaiting flags and the
\* wizard's step and configuration change only in steps of the one line that
\* is being processed.
C28_OneLineAtATime ==
    /\ [][turns' # turns => inflight = <<>>]_vars
    /\ [][(<<llmCfg, mcpCfg, file, sessionApiKeys, appVars>>'
              # <<llmCfg, mcpCfg, file, sessionApiKeys, appVars>>) =>
              Len(inflight) + Len(inflight') <= 1]_vars

\* a wizard turn on an instance that has processed nothing, holding the registry
\* `servers`
FreshTurn(servers, a) ==
    sendMessage(Loaded([EmptyConfig EXCEPT !.mcpServers = servers], NoFields),
                NoFields, a)

WizardTurns ==
    SavedCalls
        \cup {Args(m, FALSE, <<>>, <<>>, TRUE, "name_or_json", NoFields, TRUE) :
                 m \in NameLines \cup TypedJson}

SetKeyOpenAI(d) ==
    /\ d.key = <<"/setkey">>
    /\ Len(d.args) >= 2
    /\ toLowerCase(d.args[1]) = <<"openai">>
    /\ validateApiKey(<<"openai">>, d.args[2])

Shown(masked) == {i \in DOMAIN masked : masked[i] # Star}

\* C30: with no active model, a '/setkey openai <valid secret>' line that is
\* dispatched as a command yields a success result and makes openai with its
\* default model the active model; a '/status' line processed next reports the
\* openai key as set and masked (some characters of that secret hidden, the
\* others at their places or all hidden), with that provider and model active.
C30_SetKeyThenStatus ==
    /\ [][(turns' # turns /\ currentLLMConfig = NoConfig /\ route' = "command"
              /\ SetKeyOpenAI(dispatched')) =>
             /\ result'.type = "success"
             /\ currentLLMConfig' # NoConfig
             /\ currentLLMConfig'.provider = <<"openai">>
             /\ currentLLMConfig'.model = <<"gpt-4o-mini">>]_vars
    /\ [][(turns' # turns /\ route = "command" /\ SetKeyOpenAI(dispatched)
              /\ result.type = "success" /\ HasLLMConfig(result)
              /\ route' = "command" /\ dispatched'.key = <<"/status">>) =>
             LET secret == Chars(dispatched.args[2])
                 report == result'.message
                 openai == report.keys[1]
             IN  /\ result'.type = "info"
                 /\ openai.status = "set"
                 /\ Len(openai.masked) <= Len(secret)
                 /\ openai.masked # secret
                 /\ Cardinality(Shown(openai.masked)) < Len(secret)
                 /\ \A i \in Shown(openai.masked) :
                        \E j \in DOMAIN secret : openai.masked[i] = secret[j]
                 /\ report.active # NoConfig
                 /\ report.active.provider = <<"openai">>
                 /\ report.active.model = <<"gpt-4o-mini">>]_vars

\* '/status' has just reported the key that '/setkey OpenAI sk-ant-long' stored,
\* with the model that line selected
C30_Witness ==
    /\ route = "command"
    /\ dispatched.key = <<"/status">>
    /\ result.type = "info"
    /\ "message" \in DOMAIN result
    /\ result.message.keys[1].status = "set"
    /\ result.message.keys[1].source = "stored"
    /\ Shown(result.message.keys[1].masked) # {}
    /\ result.message.active # NoConfig
    /\ result.message.active.provider = <<"openai">>
    /\ result.message.active.model = <<"gpt-4o-mini">>
    /\ Lookup(llmCfg.apiKeys, "OPENAI_API_KEY") = Some(<<"sk-ant-long">>)

\* C31: when every write succeeds, the file holds every credential that is set,
\* the current lastModel and every server added, whichever component saved
\* last.
C31_NoPersistedUpdateLost ==
    /\ file.apiKeys = llmCfg.apiKeys
    /\ file.lastModel = llmCfg.lastModel
    /\ file.mcpServers = mcpCfg.mcpServers

\* the settings of an active model; an absent one is NoFields
Settings(c) == Pick(c, {"provider", "model", "temperature", "maxTokens"})

\* C32: a process that ends with an active model is followed, in the same
\* environment, by a process that starts with an active model of the same
\* provider, model, temperature and maxTokens.
C32_ActiveModelSurvivesRestart ==
    [][(call'.op = "construct" /\ currentLLMConfig # NoConfig) =>
          /\ currentLLMConfig' # NoConfig
          /\ Settings(currentLLMConfig') = Settings(currentLLMConfig)]_vars

\* C33: whenever there is an active model, the credential of its provider is
\* set in the session keys, in the stored keys or in the environment, and the
\* lookup that creates the model handle finds it.
C33_ActiveModelHasCredential ==
    currentLLMConfig # NoConfig =>
        /\ CredentialResolves(currentLLMConfig.provider)
        /\ Truthy(getApiKey(Svc, env, envVarMap(currentLLMConfig.provider)))

\* '/setkey' has just selected openai, in a process that had no active model
C33_Witness ==
    /\ route = "command"
    /\ dispatched.key = <<"/setkey">>
    /\ HasLLMConfig(result)
    /\ currentLLMConfig # NoConfig
    /\ currentLLMConfig.provider = <<"openai">>
    /\ turns >= 2

\* C34: the key prompt and the wizard are never both open, and each is opened
\* only in the step that processes a command result asking for it, taken while
\* neither was open.
C34_OneCaptureMode ==
    /\ [](~(isWaitingForApiKey /\ isWaitingForServerConfig))
    /\ [][(isWaitingForApiKey' /\ ~isWaitingForApiKey) =>
             /\ ~isWaitingForServerConfig
             /\ turns' # turns
             /\ route' = "command"
             /\ result'.type = "prompt_key"]_vars
    /\ [][(isWaitingForServerConfig' /\ ~isWaitingForServerConfig) =>
             /\ ~isWaitingForApiKey
             /\ turns' # turns
             /\ route' = "command"
             /\ IsPrompt(result')]_vars

\* the key prompt has just been opened by a '/model' line, while an earlier line
\* is still suspended
C34_Witness ==
    /\ isWaitingForApiKey
    /\ ~isWaitingForServerConfig
    /\ route = "command"
    /\ result.type = "prompt_key"
    /\ inflight # <<>>

\* the place of a step in the order of the flow; a flow starts at name_or_json
\* or at name
Rank(step) ==
    CASE step \in {"name_or_json", "name"} -> 1
      [] step = "command" -> 2
      [] step = "args" -> 3
      [] step = "env" -> 4
      [] step = "confirm" -> 5
      [] OTHER -> 0

\* C35: a wizard turn that prompts again prompts for the step that follows the
\* step it was given, never for that step or an earlier one; after k accepted
\* inputs a flow is at the step of rank k + 1 or has ended, and it has ended
\* after five.
C35_StepNeverMovesBack ==
    /\ [][(IsWizardTurn(call', route') /\ IsPrompt(result')) =>
             /\ Rank(call'.serverConfigStep) >= 1
             /\ Rank(result'.data.step) = Rank(call'.serverConfigStep) + 1]_vars
    /\ [](fed # <<>> =>
             /\ Len(fed) <= 5
             /\ IsPrompt(result) => Rank(result.data.step) = Len(fed) + 1
             /\ Len(fed) = 5 => result.type \in {"success", "info"})

\* a flow has ended at its fifth accepted input, given at confirm
C35_Witness ==
    /\ IsWizardTurn(call, route)
    /\ call.serverConfigStep = "confirm"
    /\ Len(fed) = 5
    /\ ~IsPrompt(result)

IsConnect(c) == c.op = "handleServerConnectCommand"
IsDisconnect(c) == c.op = "handleServerDisconnectCommand"

\* C36: the connected names are configured names; a connect succeeds only for
\* a configured name that is not connected and then adds that name alone; a
\* connect that does not succeed, and a disconnect of a name that is not
\* connected, leave the connected names as they were.
C36_ConnectedAreConfigured ==
    /\ [](client.sessions \subseteq DOMAIN mcpCfg.mcpServers)
    /\ [][(turns' # turns /\ IsConnect(call')) =>
             IF result'.type = "success"
             THEN /\ call'.args[1] \in DOMAIN mcpCfg.mcpServers
                  /\ call'.args[1] \notin client.sessions
                  /\ client'.sessions = client.sessions \cup {call'.args[1]}
             ELSE client'.sessions = client.sessions]_vars
    /\ [][(turns' # turns /\ IsDisconnect(call')
              /\ call'.args[1] \notin client.sessions) =>
             client'.sessions = client.sessions]_vars

\* C37: however often initialize() is called, also while an earlier call is
\* waiting, it starts the initialization of the agent at most once.
C37_InitializesOnce == initialization.started <= 1

\* C38: when re-initialization with new servers fails at a step, no exception
\* leaves it and the agent that worked before is still the agent of the service.
C38_FailedReinitKeepsAgent ==
    [][(/\ call'.op = "reinitializeWithNewServers"
        /\ call'.failed
        /\ agent # NoAgent)
       => ~call'.raised /\ agent' = agent]_vars

====
